---- MODULE Spec2Model ----
(***************************************************************************)
(* Life-RPG: progression and behavior-mechanics engine.                    *)
(*                                                                         *)
(* Conventions of the model                                                *)
(*  - a date key "YYYY-MM-DD" is the integer number of its calendar day    *)
(*    (lexicographic order of the keys = numeric order of the days);       *)
(*  - a point in time is an integer number of 6-hour units, so that        *)
(*    local midnight of day d is 4*d and local noon is 4*d + 2;            *)
(*  - a rate is an integer number of thousandths (0.02 is 20);             *)
(*  - JavaScript null is NULL for numbers and NULLSTR for strings.         *)
(***************************************************************************)
EXTENDS Integers, Sequences, FiniteSets, TLC

VARIABLES
    pc,          \* position of the evaluation harness: "start" | "done"
    input,       \* arguments handed to the function under evaluation
    output,      \* value returned by the function under evaluation
    prevOutput,  \* value returned by the previous recomputation
    clock,       \* current time (new Date()), in 6-hour units
    state,       \* main.js `state`: entries, acceptedQuests, settings, profile
    storage,     \* localStorage[STORAGE_KEY]: the persisted JSON blob
    lastEvent    \* last outcome reported by a handler (track / showMessages)

vars == <<pc, input, output, prevOutput, clock, state, storage, lastEvent>>

-----------------------------------------------------------------------------
(* Null sentinels and arithmetic helpers *)

NULL == -1000000
NULLSTR == "null"

IsFinite(x) == x # NULL

Min(a, b) == IF a <= b THEN a ELSE b
Max(a, b) == IF a >= b THEN a ELSE b

\* Math.round(n / d) for d > 0: the nearest integer, a tie going up.
MathRound(n, d) == (2 * n + d) \div (2 * d)

\* Math.max(min, Math.min(max, value))
clamp(value, min, max) == Max(min, Min(max, value))

\* array.slice(0): the whole array whatever the count
SliceAll(seq, count) == seq

\* array.slice(-count)
SliceLast(seq, count) == SubSeq(seq, Max(1, Len(seq) - count + 1), Len(seq))

RECURSIVE SeqSum(_)
SeqSum(seq) == IF seq = <<>> THEN 0 ELSE Head(seq) + SeqSum(Tail(seq))

\* The elements of a set of integers in ascending order (keys.sort()).
RECURSIVE SortedSeq(_)
SortedSeq(S) ==
    IF S = {} THEN <<>>
    ELSE LET m == CHOOSE x \in S : \A y \in S : x <= y
         IN <<m>> \o SortedSeq(S \ {m})

-----------------------------------------------------------------------------
(* Time *)

DAY_MS == 4
NOON == 2

\* new Date(`${isoDateString}T12:00:00`)
parseIsoDay(isoDay) == isoDay * DAY_MS + NOON

\* date.setHours(0, 0, 0, 0)
startOfIsoDay(date) == (date \div DAY_MS) * DAY_MS

-----------------------------------------------------------------------------
(* constants.js: BEHAVIOR_CONFIG, rates in thousandths *)

REST_DAY_MIN_STREAK == 3
REST_DAY_WINDOW_DAYS == 7
REST_DAY_MAX_USES_PER_WINDOW == 1
SOFT_PENALTY_PER_MISSED_DAY == 20
SOFT_PENALTY_MAX_RATE == 250
TOTAL_PENALTY_MAX_RATE == 300
CALORIE_LOOKBACK_DAYS == 7
CALORIE_PENALTY_PER_DEVIATION_DAY == 15
CALORIE_PENALTY_MAX_RATE == 120
RECOVERY_TRIGGER_STREAK == 3
RECOVERY_STEP_RATE == 10
RECOVERY_MAX_RATE == 80
CALORIE_RECOVERY_TRIGGER_STREAK == 3
CALORIE_RECOVERY_STEP_RATE == 5
CALORIE_RECOVERY_MAX_RATE == 30

-----------------------------------------------------------------------------
(* profile-metrics.js: BMR, TDEE, calorie band *)

\* ACTIVITY_MULTIPLIERS, in thousandths
ACTIVITY_MULTIPLIERS ==
    [sedentary |-> 1200, light |-> 1375, moderate |-> 1550,
     active |-> 1725, very_active |-> 1900]

\* CALORIE_STRATEGY_BANDS, ratios in hundredths
CALORIE_STRATEGY_BANDS ==
    [maintain |-> [minRatio |-> 90, maxRatio |-> 110],
     cut |-> [minRatio |-> 80, maxRatio |-> 95],
     gain |-> [minRatio |-> 105, maxRatio |-> 120]]

isProfileCompleteNoActivity(profile) ==
    /\ IsFinite(profile.age)
    /\ IsFinite(profile.heightCm)
    /\ IsFinite(profile.weightKg)
    /\ profile.gender # NULLSTR

isProfileComplete(profile) ==
    /\ IsFinite(profile.age)
    /\ IsFinite(profile.heightCm)
    /\ IsFinite(profile.weightKg)
    /\ profile.gender # NULLSTR
    /\ profile.activityLevel # NULLSTR

\* Mifflin-St Jeor; the result is in quarter kcal (6.25 * heightCm is 25/4).
BMR_SCALE == 4

computeBmr(profile) ==
    IF ~isProfileComplete(profile) THEN NULL
    ELSE LET genderConstant == IF profile.gender = "female" THEN -161 ELSE 5
         IN (10 * BMR_SCALE * profile.weightKg) + (25 * profile.heightCm)
            - (5 * BMR_SCALE * profile.age) + (BMR_SCALE * genderConstant)

computeTdee(profile) ==
    LET bmr == computeBmr(profile)
    IN IF bmr = NULL THEN NULL
       ELSE IF profile.activityLevel \notin DOMAIN ACTIVITY_MULTIPLIERS THEN NULL
       ELSE MathRound(bmr * ACTIVITY_MULTIPLIERS[profile.activityLevel],
                      BMR_SCALE * 1000)

\* A calorie range is {min, max}; null is the range of two NULLs.
NullRange == [min |-> NULL, max |-> NULL]

computeHealthyCalorieRangeFromTdee(tdee, strategy) ==
    IF ~IsFinite(tdee) THEN NullRange
    ELSE LET band == IF strategy \in DOMAIN CALORIE_STRATEGY_BANDS
                     THEN CALORIE_STRATEGY_BANDS[strategy]
                     ELSE CALORIE_STRATEGY_BANDS.maintain
         IN [min |-> MathRound(tdee * band.minRatio, 100),
             max |-> MathRound(tdee * band.maxRatio, 100)]

computeHealthyCalorieRange(profile, strategy) ==
    computeHealthyCalorieRangeFromTdee(computeTdee(profile), strategy)

-----------------------------------------------------------------------------
(* profile-metrics.js: adaptive TDEE.  A ratio is an integer number of       *)
(* 1/RATIO_SCALE; the smoothed ratio, one digit finer, of 1/SMOOTH_SCALE.    *)

DYNAMIC_TDEE_WINDOW_DAYS == 14
RATIO_SCALE == 10000
SMOOTH_SCALE == 100000
DYNAMIC_TDEE_MAX_DELTA_RATIO == 1200
DYNAMIC_TDEE_SMOOTHING_ALPHA == 6

\* n / d rounded down, for any sign of d # 0
Quot(n, d) == IF d > 0 THEN n \div d ELSE (0 - n) \div (0 - d)

Abs(x) == IF x < 0 THEN 0 - x ELSE x
Sign(x) == IF x > 0 THEN 1 ELSE IF x < 0 THEN -1 ELSE 0

\* Math.sqrt on integers: the largest r with r * r <= x, by bisection
RECURSIVE SqrtBetween(_, _, _)
SqrtBetween(x, lo, hi) ==
    IF lo >= hi THEN lo
    ELSE LET mid == (lo + hi + 1) \div 2
         IN IF mid * mid <= x THEN SqrtBetween(x, mid, hi)
            ELSE SqrtBetween(x, lo, mid - 1)

Sqrt(x) == SqrtBetween(x, 0, 46340)

FiniteOnly(values) == SelectSeq(values, IsFinite)

\* safeAverage: the mean of the finite values, 0 when there is none
safeAverage(values) ==
    LET finite == FiniteOnly(values)
    IN IF Len(finite) = 0 THEN 0 ELSE Quot(SeqSum(finite), Len(finite))

\* averageFinite: the same with a caller-chosen fallback
averageFinite(values, fallback) ==
    LET finite == FiniteOnly(values)
    IN IF Len(finite) = 0 THEN fallback ELSE Quot(SeqSum(finite), Len(finite))

\* safeAverage(values) / reference as a ratio
averageRatio(values, reference) ==
    LET finite == FiniteOnly(values)
    IN IF Len(finite) = 0 THEN 0
       ELSE Quot(SeqSum(finite) * RATIO_SCALE, Len(finite) * reference)

\* (value - baselineTdee) / baselineTdee; not finite when the baseline is 0
calorieRatio(value, baselineTdee) ==
    IF baselineTdee = 0 THEN NULL
    ELSE Quot((value - baselineTdee) * RATIO_SCALE, baselineTdee)

computeStandardDeviation(values) ==
    IF Len(values) < 2 THEN 0
    ELSE LET mean == safeAverage(values)
             squares == [i \in 1..Len(values) |->
                            IF IsFinite(values[i])
                            THEN ((values[i] - mean) * (values[i] - mean)) \div RATIO_SCALE
                            ELSE NULL]
             variance == safeAverage(squares)
         IN Sqrt(variance * RATIO_SCALE)

capDeltaRatioLoose(value) == value

capDeltaRatio(value) ==
    clamp(value, 0 - DYNAMIC_TDEE_MAX_DELTA_RATIO, DYNAMIC_TDEE_MAX_DELTA_RATIO)

\* entries.filter(date is a string).sort(by date); dates are distinct
sortByDate(entries) ==
    LET dates == SortedSeq({entries[i].date : i \in 1..Len(entries)})
    IN [k \in 1..Len(dates) |->
           entries[CHOOSE i \in 1..Len(entries) : entries[i].date = dates[k]]]

\* The ratios computeDynamicTdee derives for a finite baseline.
dynamicTdeeRatios(baselineTdee, entries) ==
    LET orderedEntries == sortByDate(entries)
        windowEntries == SliceLast(orderedEntries, DYNAMIC_TDEE_WINDOW_DAYS)
        n == Len(windowEntries)
        exerciseMinutesRatio ==
            averageRatio([i \in 1..n |-> windowEntries[i].exerciseMinutes], 45)
        exerciseEffortRatio ==
            averageRatio([i \in 1..n |-> windowEntries[i].exerciseEffort], 6)
        stepsRatio == averageRatio([i \in 1..n |-> windowEntries[i].steps], 8000)
        calorieValues == FiniteOnly([i \in 1..n |-> windowEntries[i].calories])
        calorieRatios == [i \in 1..Len(calorieValues) |->
                             calorieRatio(calorieValues[i], baselineTdee)]
        activityLoadRatio ==
            averageFinite(<<exerciseMinutesRatio, exerciseEffortRatio, stepsRatio>>,
                          RATIO_SCALE)
        activityDeltaRatio ==
            clamp(((activityLoadRatio - RATIO_SCALE) * 8) \div 100, -600, 1000)
        intakeDeltaRatio == clamp((safeAverage(calorieRatios) * 35) \div 100, -800, 800)
        intakeVarianceRatio == Min(500, computeStandardDeviation(calorieRatios) \div 4)
        rawDeltaRatio == activityDeltaRatio + intakeDeltaRatio
        varianceDampenedDeltaRatio ==
            Sign(rawDeltaRatio) * Max(0, Abs(rawDeltaRatio) - intakeVarianceRatio)
    IN [activityDeltaRatio |-> activityDeltaRatio,
        intakeDeltaRatio |-> intakeDeltaRatio,
        intakeVarianceRatio |-> intakeVarianceRatio,
        rawDeltaRatio |-> rawDeltaRatio,
        varianceDampenedDeltaRatio |-> varianceDampenedDeltaRatio,
        cappedDeltaRatio |-> capDeltaRatio(varianceDampenedDeltaRatio)]

\* interpretation is one of "incomplete", "stable", "elevated", "reduced"
describeTdeeDelta(deltaRatio) ==
    IF Abs(deltaRatio) < SMOOTH_SCALE \div 100 THEN "stable"
    ELSE IF deltaRatio > 0 THEN "elevated" ELSE "reduced"

computeDynamicTdee(profile, entries) ==
    LET baselineTdee == computeTdee(profile)
    IN IF ~IsFinite(baselineTdee)
       THEN [baselineTdee |-> NULL, dynamicTdee |-> NULL, delta |-> 0,
             deltaRatio |-> 0, interpretation |-> "incomplete"]
       ELSE
       LET cappedDeltaRatio == dynamicTdeeRatios(baselineTdee, entries).cappedDeltaRatio
           smoothDeltaRatio == cappedDeltaRatio * DYNAMIC_TDEE_SMOOTHING_ALPHA
           dynamicTdee ==
               MathRound(baselineTdee * (SMOOTH_SCALE + smoothDeltaRatio), SMOOTH_SCALE)
       IN [baselineTdee |-> baselineTdee,
           dynamicTdee |-> dynamicTdee,
           delta |-> dynamicTdee - baselineTdee,
           deltaRatio |-> smoothDeltaRatio,
           interpretation |-> describeTdeeDelta(smoothDeltaRatio)]

-----------------------------------------------------------------------------
(* behavior-mechanics.js: missed days, streaks, calorie adherence, rest day *)

\* entriesMap[dateKey]?.calories
caloriesOf(entriesMap, dateKey) ==
    IF dateKey \in DOMAIN entriesMap THEN entriesMap[dateKey].calories ELSE NULL

\* the gap counted with both of its end days
dayGapAtInclusive(orderedDateKeys, index) ==
    orderedDateKeys[index] - orderedDateKeys[index - 1] + 1

\* Math.round((current - previous) / DAY_MS) for the pair ending at index
dayGapAt(orderedDateKeys, index) ==
    MathRound(parseIsoDay(orderedDateKeys[index])
              - parseIsoDay(orderedDateKeys[index - 1]), DAY_MS)

\* a single skipped day forgiven as a rest day: only longer gaps are counted
missedDaysFromRestForgiven(orderedDateKeys, index) ==
    SeqSum([i \in 1..(Len(orderedDateKeys) - index + 1) |->
               LET dayGap == dayGapAt(orderedDateKeys, index + i - 1)
               IN IF dayGap > 2 THEN dayGap - 1 ELSE 0])

RECURSIVE missedDaysFrom(_, _)
missedDaysFrom(orderedDateKeys, index) ==
    IF index > Len(orderedDateKeys) THEN 0
    ELSE LET dayGap == dayGapAt(orderedDateKeys, index)
         IN (IF dayGap > 1 THEN dayGap - 1 ELSE 0)
            + missedDaysFrom(orderedDateKeys, index + 1)

countImplicitMissedDaysWholeGap(orderedDateKeys) ==
    SeqSum([i \in 1..(Len(orderedDateKeys) - 1) |->
               IF dayGapAt(orderedDateKeys, i + 1) > 1
               THEN dayGapAt(orderedDateKeys, i + 1) ELSE 0])

countImplicitMissedDays(orderedDateKeys) == missedDaysFrom(orderedDateKeys, 2)

\* The loop of countCurrentStreak / countComebackStreak: the number of
\* gap == 1 transitions met walking back from index until the first other gap.
RECURSIVE contiguousBack(_, _)
contiguousBack(orderedDateKeys, index) ==
    IF index <= 1 THEN 0
    ELSE IF dayGapAt(orderedDateKeys, index) = 1
         THEN 1 + contiguousBack(orderedDateKeys, index - 1)
         ELSE 0

\* let streak = 0: the latest logged day itself is not counted
countCurrentStreakFromZero(orderedDateKeys) ==
    contiguousBack(orderedDateKeys, Len(orderedDateKeys))

countCurrentStreak(orderedDateKeys) ==
    1 + contiguousBack(orderedDateKeys, Len(orderedDateKeys))

\* no break at the gap: every consecutive pair of the log is counted
countComebackStreakNoBreak(orderedDateKeys) ==
    1 + Cardinality({index \in 2..Len(orderedDateKeys) :
                        dayGapAt(orderedDateKeys, index) = 1})

countComebackStreak(orderedDateKeys) ==
    1 + contiguousBack(orderedDateKeys, Len(orderedDateKeys))

\* the band taken as open: a value on either edge counts as outside
inHealthyRangeOpen(calories, healthyRange) ==
    ~(calories <= healthyRange.min \/ calories >= healthyRange.max)

inHealthyRange(calories, healthyRange) ==
    ~(calories < healthyRange.min \/ calories > healthyRange.max)

RECURSIVE inRangeBack(_, _, _, _)
inRangeBack(recentDateKeys, entriesMap, healthyRange, index) ==
    IF index < 1 THEN 0
    ELSE LET calories == caloriesOf(entriesMap, recentDateKeys[index])
         IN IF ~IsFinite(calories) THEN 0
            ELSE IF ~inHealthyRange(calories, healthyRange) THEN 0
            ELSE 1 + inRangeBack(recentDateKeys, entriesMap, healthyRange, index - 1)

\* the streak taken as the number of in-band entries, with no break
countInRangeAnywhere(recentDateKeys, entriesMap, healthyRange) ==
    Cardinality({i \in 1..Len(recentDateKeys) :
        /\ IsFinite(caloriesOf(entriesMap, recentDateKeys[i]))
        /\ inHealthyRange(caloriesOf(entriesMap, recentDateKeys[i]), healthyRange)})

countTrailingInRangeStreak(recentDateKeys, entriesMap, healthyRange) ==
    inRangeBack(recentDateKeys, entriesMap, healthyRange, Len(recentDateKeys))

DisabledCalorieEffect ==
    [caloriePenaltyRate |-> 0,
     calorieRecoveryRate |-> 0,
     calorieAdherence |->
        [evaluatedDays |-> 0, deviationDays |-> 0, inRangeStreak |-> 0,
         rangeMin |-> NULL, rangeMax |-> NULL, enabled |-> FALSE]]

evaluateCalorieAdherencePenalty(orderedDateKeys, entriesMap, profile) ==
    LET healthyRange == IF isProfileComplete(profile)
                        THEN computeHealthyCalorieRange(profile, "maintain")
                        ELSE NullRange
    IN IF healthyRange = NullRange THEN DisabledCalorieEffect
       ELSE
       LET recentDateKeys == SliceLast(orderedDateKeys, CALORIE_LOOKBACK_DAYS)
           evaluated == {i \in 1..Len(recentDateKeys) :
                            IsFinite(caloriesOf(entriesMap, recentDateKeys[i]))}
           deviating == {i \in evaluated :
                            ~inHealthyRange(caloriesOf(entriesMap, recentDateKeys[i]),
                                            healthyRange)}
           evaluatedDays == Cardinality(evaluated)
           deviationDays == Cardinality(deviating)
           inRangeStreak ==
               countTrailingInRangeStreak(recentDateKeys, entriesMap, healthyRange)
       IN [caloriePenaltyRate |->
              Min(deviationDays * CALORIE_PENALTY_PER_DEVIATION_DAY,
                  CALORIE_PENALTY_MAX_RATE),
           calorieRecoveryRate |->
              IF inRangeStreak >= CALORIE_RECOVERY_TRIGGER_STREAK
              THEN Min((inRangeStreak - CALORIE_RECOVERY_TRIGGER_STREAK + 1)
                          * CALORIE_RECOVERY_STEP_RATE,
                       CALORIE_RECOVERY_MAX_RATE)
              ELSE 0,
           calorieAdherence |->
              [evaluatedDays |-> evaluatedDays, deviationDays |-> deviationDays,
               inRangeStreak |-> inRangeStreak,
               rangeMin |-> healthyRange.min, rangeMax |-> healthyRange.max,
               enabled |-> TRUE]]

countRecentSingleDayGapsAnywhere(orderedDateKeys, windowDays) ==
    Cardinality({index \in 2..Len(orderedDateKeys) :
                    dayGapAt(orderedDateKeys, index) = 2})

countRecentSingleDayGaps(orderedDateKeys, windowDays) ==
    IF Len(orderedDateKeys) < 2 THEN 0
    ELSE LET latestLogged == parseIsoDay(orderedDateKeys[Len(orderedDateKeys)])
             windowStart == latestLogged - (windowDays - 1) * DAY_MS
         IN Cardinality({index \in 2..Len(orderedDateKeys) :
                /\ ~(parseIsoDay(orderedDateKeys[index]) < windowStart)
                /\ dayGapAt(orderedDateKeys, index) = 2})

\* the streak taken as active however old the latest log is
streakIsActiveAlways(daysSinceLatest) == TRUE

streakIsActive(daysSinceLatest) == daysSinceLatest <= 1

\* restDay.message is one of
\*   "log_first", "reactivate", "build_streak", "already_used", "available"
evaluateRestDayEligibility(orderedDateKeys, currentStreak, referenceDate) ==
    LET windowDays == REST_DAY_WINDOW_DAYS
        maxUses == REST_DAY_MAX_USES_PER_WINDOW
        minStreak == REST_DAY_MIN_STREAK
        today == startOfIsoDay(referenceDate)
        latestLogged == parseIsoDay(orderedDateKeys[Len(orderedDateKeys)])
        daysSinceLatest == MathRound(today - latestLogged, DAY_MS)
        recentRestUsage == countRecentSingleDayGaps(orderedDateKeys, windowDays)
        remainingThisWindow == Max(0, maxUses - recentRestUsage)
    IN IF ~streakIsActive(daysSinceLatest)
       THEN [eligible |-> FALSE, remainingThisWindow |-> remainingThisWindow,
             message |-> "reactivate"]
       ELSE IF currentStreak < minStreak
       THEN [eligible |-> FALSE, remainingThisWindow |-> remainingThisWindow,
             message |-> "build_streak"]
       ELSE IF remainingThisWindow <= 0
       THEN [eligible |-> FALSE, remainingThisWindow |-> remainingThisWindow,
             message |-> "already_used"]
       ELSE [eligible |-> TRUE, remainingThisWindow |-> remainingThisWindow,
             message |-> "available"]

combinedPenaltyUncapped(missedDayPenaltyRate, caloriePenaltyRate) ==
    missedDayPenaltyRate + caloriePenaltyRate

combinedPenalty(missedDayPenaltyRate, caloriePenaltyRate) ==
    Min(TOTAL_PENALTY_MAX_RATE, missedDayPenaltyRate + caloriePenaltyRate)

\* the early return dropped: the streak counters start at 1 on an empty log
EmptyLogBehaviorStreakOne ==
    [totalMissedDays |-> 0, missedDayPenaltyRate |-> 0,
     caloriePenaltyRate |-> 0, penaltyRate |-> 0, recoveryRate |-> 0,
     calorieRecoveryRate |-> 0, currentStreak |-> 1, comebackStreak |-> 1,
     calorieAdherence |-> DisabledCalorieEffect.calorieAdherence,
     restDay |-> [eligible |-> FALSE,
                  remainingThisWindow |-> REST_DAY_MAX_USES_PER_WINDOW,
                  message |-> "log_first"]]

\* The result of the early return for a log without entries.
EmptyLogBehavior ==
    [totalMissedDays |-> 0, missedDayPenaltyRate |-> 0,
     caloriePenaltyRate |-> 0, penaltyRate |-> 0, recoveryRate |-> 0,
     calorieRecoveryRate |-> 0, currentStreak |-> 0, comebackStreak |-> 0,
     calorieAdherence |-> DisabledCalorieEffect.calorieAdherence,
     restDay |-> [eligible |-> FALSE,
                  remainingThisWindow |-> REST_DAY_MAX_USES_PER_WINDOW,
                  message |-> "log_first"]]

\* the step rate without its Math.min against RECOVERY_MAX_RATE
streakRecoveryRateUncapped(comebackStreak) ==
    IF comebackStreak >= RECOVERY_TRIGGER_STREAK
    THEN (comebackStreak - RECOVERY_TRIGGER_STREAK + 1) * RECOVERY_STEP_RATE
    ELSE 0

streakRecoveryRate(comebackStreak) ==
    IF comebackStreak >= RECOVERY_TRIGGER_STREAK
    THEN Min((comebackStreak - RECOVERY_TRIGGER_STREAK + 1) * RECOVERY_STEP_RATE,
             RECOVERY_MAX_RATE)
    ELSE 0

evaluateBehaviorMechanics(orderedDateKeys, entriesMap, profile, referenceDate) ==
    IF Len(orderedDateKeys) = 0
    THEN EmptyLogBehavior
    ELSE
    LET totalMissedDays == countImplicitMissedDays(orderedDateKeys)
        currentStreak == countCurrentStreak(orderedDateKeys)
        comebackStreak == countComebackStreak(orderedDateKeys)
        missedDayPenaltyRate ==
            Min(totalMissedDays * SOFT_PENALTY_PER_MISSED_DAY, SOFT_PENALTY_MAX_RATE)
        calorieEffect ==
            evaluateCalorieAdherencePenalty(orderedDateKeys, entriesMap, profile)
        caloriePenaltyRate == calorieEffect.caloriePenaltyRate
        calorieRecoveryRate == calorieEffect.calorieRecoveryRate
        penaltyRate == combinedPenalty(missedDayPenaltyRate, caloriePenaltyRate)
        recoveryRate ==
            Min(RECOVERY_MAX_RATE + CALORIE_RECOVERY_MAX_RATE,
                streakRecoveryRate(comebackStreak) + calorieRecoveryRate)
        restDay == evaluateRestDayEligibility(orderedDateKeys, currentStreak,
                                              referenceDate)
    IN [totalMissedDays |-> totalMissedDays,
        missedDayPenaltyRate |-> missedDayPenaltyRate,
        caloriePenaltyRate |-> caloriePenaltyRate,
        penaltyRate |-> penaltyRate,
        recoveryRate |-> recoveryRate,
        calorieRecoveryRate |-> calorieRecoveryRate,
        currentStreak |-> currentStreak,
        comebackStreak |-> comebackStreak,
        calorieAdherence |-> calorieEffect.calorieAdherence,
        restDay |-> restDay]

-----------------------------------------------------------------------------
(* Inputs of the evaluation harnesses *)

MaxEntries == 5
BaseDay == 1
Gaps == {1, 2, 5, 14}
RefOffsets == {-1, 0, 1, 2}
RefHours == {0, 3}

NoProfile ==
    [age |-> NULL, heightCm |-> NULL, weightKg |-> NULL,
     gender |-> NULLSTR, activityLevel |-> NULLSTR]

CompleteProfile ==
    [age |-> 30, heightCm |-> 180, weightKg |-> 80,
     gender |-> "male", activityLevel |-> "moderate"]

OtherProfile ==
    [age |-> 41, heightCm |-> 165, weightKg |-> 62,
     gender |-> "female", activityLevel |-> "light"]

\* The date keys of a log that starts at BaseDay and advances by gaps[i].
RECURSIVE DatesFromGaps(_, _)
DatesFromGaps(first, gaps) ==
    IF gaps = <<>> THEN <<first>>
    ELSE <<first>> \o DatesFromGaps(first + Head(gaps), Tail(gaps))

DateLogs ==
    {<<>>} \cup
    UNION {{DatesFromGaps(BaseDay, gaps) : gaps \in [1..k -> Gaps]} :
              k \in 0..(MaxEntries - 1)}

SeqToSet(seq) == {seq[i] : i \in 1..Len(seq)}

\* An entry as readEntryFromForm builds it, all metrics not logged.
BlankEntry(date) ==
    [date |-> date, calories |-> NULL, sleepHours |-> NULL, mood |-> NULL,
     steps |-> NULL, exerciseMinutes |-> NULL, exerciseEffort |-> NULL]

CalorieClasses == {"none", "in", "out"}

\* A calorie value of the class for the profile: inside or outside the
\* maintenance band when the profile yields one.
CaloriesOfClass(class, profile) ==
    LET range == computeHealthyCalorieRange(profile, "maintain")
    IN CASE class = "none" -> NULL
         [] class = "in" -> IF range = NullRange THEN 2000 ELSE range.min
         [] class = "out" -> IF range = NullRange THEN 5000 ELSE range.max + 1

\* The last `recent` entries log calories of class a, the earlier ones of class b.
EntriesMapFor(keys, profile, a, b, recent) ==
    [d \in SeqToSet(keys) |->
        LET index == CHOOSE i \in 1..Len(keys) : keys[i] = d
            class == IF index > Len(keys) - recent THEN a ELSE b
        IN [BlankEntry(d) EXCEPT !.calories = CaloriesOfClass(class, profile)]]

RecentSplit == 3

BehaviorInputs ==
    {[orderedDateKeys |-> keys,
      entriesMap |-> EntriesMapFor(keys, profile, a, b, RecentSplit),
      profile |-> profile,
      referenceDate |->
          (IF keys = <<>> THEN BaseDay ELSE keys[Len(keys)] + off) * DAY_MS + hour] :
        keys \in DateLogs, profile \in {CompleteProfile, NoProfile},
        a \in CalorieClasses, b \in CalorieClasses,
        off \in RefOffsets, hour \in RefHours}

Idle == [idle |-> TRUE]

-----------------------------------------------------------------------------
(* SpecBehavior: evaluateBehaviorMechanics applied to a drawn input *)

InitBehavior ==
    /\ pc = "start"
    /\ input \in BehaviorInputs
    /\ output = Idle
    /\ prevOutput = Idle
    /\ clock = 0
    /\ state = Idle
    /\ storage = Idle
    /\ lastEvent = "none"

EvaluateBehavior ==
    /\ pc = "start"
    /\ output' = evaluateBehaviorMechanics(input.orderedDateKeys, input.entriesMap,
                                           input.profile, input.referenceDate)
    /\ pc' = "done"
    /\ UNCHANGED <<input, prevOutput, clock, state, storage, lastEvent>>

NextBehavior == EvaluateBehavior

SpecBehavior == InitBehavior /\ [][NextBehavior]_vars

\* Calendar arithmetic used to state the claims, on day numbers alone.
GapDays(keys, i) == keys[i + 1] - keys[i]
LatestDay(keys) == keys[Len(keys)]
RefDay == input.referenceDate \div DAY_MS

\* C1: penaltyRate = min(missedDayPenaltyRate + caloriePenaltyRate, 0.30), so
\* it never exceeds 0.30 whatever the log and the profile are.
C1_CombinedPenaltyCap ==
    pc = "done" =>
        /\ output.penaltyRate
             = Min(output.missedDayPenaltyRate + output.caloriePenaltyRate, 300)
        /\ output.penaltyRate <= 300

\* the combined cap binds: the two independently capped rates add up to more
C1_Witness ==
    /\ pc = "done"
    /\ output.missedDayPenaltyRate + output.caloriePenaltyRate > 300
    /\ output.caloriePenaltyRate > 0
    /\ output.penaltyRate = 300

\* C2: totalMissedDays is the sum over consecutive date pairs of
\* max(0, gapDays - 1), and missedDayPenaltyRate = min(totalMissedDays * 0.02, 0.25).
C2_MissedDays ==
    (pc = "done" /\ Len(input.orderedDateKeys) >= 1) =>
        LET keys == input.orderedDateKeys
            total == SeqSum([i \in 1..(Len(keys) - 1) |-> Max(0, GapDays(keys, i) - 1)])
        IN /\ output.totalMissedDays = total
           /\ output.missedDayPenaltyRate = Min(total * 20, 250)

\* a log with a consecutive pair, a larger gap and a binding 0.25 cap
C2_Witness ==
    /\ pc = "done"
    /\ Len(input.orderedDateKeys) >= 3
    /\ \E i \in 1..(Len(input.orderedDateKeys) - 1) :
          GapDays(input.orderedDateKeys, i) = 1
    /\ output.totalMissedDays > 13
    /\ output.missedDayPenaltyRate = 250

\* Single-day gaps whose later date lies in the 7 days ending at the latest log.
SingleDayGapsInWindow(keys) ==
    Cardinality({i \in 1..(Len(keys) - 1) :
                    /\ GapDays(keys, i) = 2
                    /\ keys[i + 1] >= LatestDay(keys) - 6})

\* C3 as stated: eligible exactly when the latest log is today or yesterday,
\* the current streak is >= 3 and at most one single-day gap is in the window.
C3_AsStated ==
    (pc = "done" /\ Len(input.orderedDateKeys) >= 1) =>
        LET keys == input.orderedDateKeys
        IN output.restDay.eligible
             <=> /\ LatestDay(keys) \in {RefDay, RefDay - 1}
                 /\ output.currentStreak >= 3
                 /\ SingleDayGapsInWindow(keys) <= 1

\* C3 amended: eligible exactly when the latest log is not older than the day
\* before the reference day, the current streak is >= 3 and no single-day gap
\* lies in the trailing 7-day window.
C3_RestDayEligible ==
    (pc = "done" /\ Len(input.orderedDateKeys) >= 1) =>
        LET keys == input.orderedDateKeys
        IN output.restDay.eligible
             <=> /\ LatestDay(keys) >= RefDay - 1
                 /\ output.currentStreak >= 3
                 /\ SingleDayGapsInWindow(keys) = 0

\* eligible although an older single-day gap exists outside the window
C3_Witness ==
    /\ pc = "done"
    /\ Len(input.orderedDateKeys) >= 1
    /\ output.restDay.eligible
    /\ LatestDay(input.orderedDateKeys) = RefDay - 1
    /\ \E i \in 1..(Len(input.orderedDateKeys) - 1) :
          GapDays(input.orderedDateKeys, i) = 2

-----------------------------------------------------------------------------
(* SpecTdee: the BMR / TDEE functions applied to a drawn profile and log *)

MaxTdeeLog == 15
SplitPoints == {0, 1, 7}

\* Profiles with exactly one required field missing.
IncompleteProfiles ==
    {[CompleteProfile EXCEPT !.age = NULL],
     [CompleteProfile EXCEPT !.heightCm = NULL],
     [CompleteProfile EXCEPT !.weightKg = NULL],
     [CompleteProfile EXCEPT !.gender = NULLSTR],
     [CompleteProfile EXCEPT !.activityLevel = NULLSTR]}

TdeeProfiles == {CompleteProfile, OtherProfile, NoProfile} \cup IncompleteProfiles

DayTemplates == {"rest", "neutral", "zero", "high", "blank"}

\* One logged day of the template; `baseline` stands for the profile's TDEE.
TemplateEntry(template, date, baseline) ==
    CASE template = "rest" ->
            [BlankEntry(date) EXCEPT !.calories = baseline]
      [] template = "neutral" ->
            [BlankEntry(date) EXCEPT !.calories = baseline, !.exerciseMinutes = 45,
                                     !.exerciseEffort = 6, !.steps = 8000]
      [] template = "zero" ->
            [BlankEntry(date) EXCEPT !.calories = 0, !.exerciseMinutes = 0,
                                     !.steps = 0]
      [] template = "high" ->
            [BlankEntry(date) EXCEPT !.calories = 2 * baseline, !.exerciseMinutes = 240,
                                     !.exerciseEffort = 10, !.steps = 12000]
      [] template = "blank" -> BlankEntry(date)

BaselineFor(profile) ==
    IF IsFinite(computeTdee(profile)) THEN computeTdee(profile) ELSE 2000

\* n consecutive days: the first `split` of template t1, the rest of t2,
\* handed over oldest first or newest first.
TdeeLog(n, split, t1, t2, profile, newestFirst) ==
    [i \in 1..n |->
        LET k == IF newestFirst THEN n + 1 - i ELSE i
        IN TemplateEntry(IF k <= split THEN t1 ELSE t2, BaseDay + k - 1,
                         BaselineFor(profile))]

TdeeInputs ==
    {[profile |-> profile,
      entries |-> TdeeLog(n, Min(split, n), t1, t2, profile, newestFirst)] :
        profile \in TdeeProfiles, n \in 0..MaxTdeeLog, split \in SplitPoints,
        t1 \in DayTemplates, t2 \in DayTemplates, newestFirst \in BOOLEAN}

InitTdee ==
    /\ pc = "start"
    /\ input \in TdeeInputs
    /\ output = Idle
    /\ prevOutput = Idle
    /\ clock = 0
    /\ state = Idle
    /\ storage = Idle
    /\ lastEvent = "none"

EvaluateTdee ==
    /\ pc = "start"
    /\ output' = [bmr |-> computeBmr(input.profile),
                  tdee |-> computeTdee(input.profile),
                  range |-> computeHealthyCalorieRange(input.profile, "maintain"),
                  dynamic |-> computeDynamicTdee(input.profile, input.entries)]
    /\ pc' = "done"
    /\ UNCHANGED <<input, prevOutput, clock, state, storage, lastEvent>>

NextTdee == EvaluateTdee

SpecTdee == InitTdee /\ [][NextTdee]_vars

RequiredFieldMissing(profile) ==
    \/ profile.age = NULL
    \/ profile.heightCm = NULL
    \/ profile.weightKg = NULL
    \/ profile.gender = NULLSTR
    \/ profile.activityLevel = NULLSTR

\* A 14-entry window, every day logging calories equal to the baseline TDEE
\* and no exercise.
FlatOnBaselineWindow ==
    /\ ~RequiredFieldMissing(input.profile)
    /\ Len(input.entries) = 14
    /\ \A i \in 1..Len(input.entries) :
          /\ input.entries[i].calories = computeTdee(input.profile)
          /\ input.entries[i].exerciseMinutes \in {NULL, 0}
          /\ input.entries[i].exerciseEffort = NULL

\* C4: with a complete profile and a flat, on-baseline 14-entry window
\* without exercise, dynamicTdee equals baselineTdee and delta is 0.
C4_FlatWindowZeroDelta ==
    (pc = "done" /\ FlatOnBaselineWindow) =>
        /\ output.dynamic.dynamicTdee = output.dynamic.baselineTdee
        /\ output.dynamic.delta = 0

\* C5: the delta ratio before smoothing lies in [-0.12, 0.12], the returned
\* deltaRatio is that ratio times 0.6 (at most 0.072 in magnitude), and
\* dynamicTdee = round(baselineTdee * (1 + deltaRatio)).
C5_DeltaRatioBounds ==
    (pc = "done" /\ ~RequiredFieldMissing(input.profile)) =>
        LET capped == dynamicTdeeRatios(output.tdee, input.entries).cappedDeltaRatio
        IN /\ capped >= -1200 /\ capped <= 1200
           /\ output.dynamic.deltaRatio = 6 * capped
           /\ Abs(output.dynamic.deltaRatio) <= 7200
           /\ output.dynamic.dynamicTdee
                = MathRound(output.tdee * (100000 + output.dynamic.deltaRatio), 100000)

\* the raw delta exceeds 0.12 and is clamped: the result sits on the 7.2% edge
C5_Witness ==
    /\ pc = "done"
    /\ ~RequiredFieldMissing(input.profile)
    /\ dynamicTdeeRatios(output.tdee, input.entries).varianceDampenedDeltaRatio > 1200
    /\ output.dynamic.deltaRatio = 7200

\* C6: with a required profile field missing, computeBmr, computeTdee and
\* computeHealthyCalorieRange return null and computeDynamicTdee returns
\* baselineTdee = null and dynamicTdee = null.
C6_IncompleteProfileNull ==
    (pc = "done" /\ RequiredFieldMissing(input.profile)) =>
        /\ output.bmr = NULL
        /\ output.tdee = NULL
        /\ output.range = NullRange
        /\ output.dynamic.baselineTdee = NULL
        /\ output.dynamic.dynamicTdee = NULL

\* only the activity level is missing and there are entries to adapt to
C6_Witness ==
    /\ pc = "done"
    /\ input.profile.activityLevel = NULLSTR
    /\ input.profile.age # NULL /\ input.profile.weightKg # NULL
    /\ Len(input.entries) > 0
    /\ output.bmr = NULL
    /\ output.dynamic.dynamicTdee = NULL

-----------------------------------------------------------------------------
(* progression.js: skill gains, progression snapshot, quest progress *)

QuestIds == {"dailyLog30", "exercise10", "weekly7"}

\* constants.js QUESTS: the targets of the static catalog
QUESTS == [dailyLog30 |-> 30, exercise10 |-> 10, weekly7 |-> 7]

ATTRIBUTE_SKILLS ==
    [Body |-> {"Strength", "Flexibility", "Energy"},
     Mind |-> {"Learning", "Organisation", "Creativity"},
     Soul |-> {"Mindfulness", "Emotional Balance", "Connection"}]

GainSkills == {"Energy", "Organisation", "Emotional Balance", "Strength"}

\* if (entry.mood > 7): a mood of exactly 7 earns no bonus
computeSkillGainsStrictMood(entry) ==
    [skill \in GainSkills |->
        CASE skill = "Energy" ->
                5 + (IF entry.sleepHours >= 7 /\ entry.sleepHours <= 9 THEN 5 ELSE 0)
          [] skill = "Organisation" -> 5
          [] skill = "Emotional Balance" ->
                5 + (IF entry.mood > 7 THEN 5 ELSE 0)
          [] skill = "Strength" ->
                15 + (IF entry.exerciseMinutes >= 30 /\ entry.exerciseEffort >= 6
                      THEN 10 ELSE 0)]

computeSkillGains(entry) ==
    [skill \in GainSkills |->
        CASE skill = "Energy" ->
                5 + (IF entry.sleepHours >= 7 /\ entry.sleepHours <= 9 THEN 5 ELSE 0)
          [] skill = "Organisation" -> 5
          [] skill = "Emotional Balance" ->
                5 + (IF entry.mood >= 7 THEN 5 ELSE 0)
          [] skill = "Strength" ->
                15 + (IF entry.exerciseMinutes >= 30 /\ entry.exerciseEffort >= 6
                      THEN 10 ELSE 0)]

\* Date.getDay(): 0 is Sunday; day number 0 is a Monday
getDay(date) == ((date \div DAY_MS) + 1) % 7

weekStartNoReset(now) == now - ((getDay(now) + 6) % 7) * DAY_MS

\* local Monday 00:00 of the week that contains now
weekStart(now) == startOfIsoDay(now - ((getDay(now) + 6) % 7) * DAY_MS)

withAcceptanceIgnored(key, current, acceptedQuests) ==
    [current |-> current,
     target |-> QUESTS[key],
     accepted |-> key \in DOMAIN acceptedQuests /\ acceptedQuests[key]]

\* acceptedQuests maps some quest ids to booleans; a missing id is undefined
withAcceptance(key, current, acceptedQuests) ==
    LET accepted == key \in DOMAIN acceptedQuests /\ acceptedQuests[key]
    IN [current |-> IF accepted THEN current ELSE 0,
        target |-> QUESTS[key],
        accepted |-> accepted]

computeQuestProgress(entries, acceptedQuests, now) ==
    LET logs == Len(entries)
        exerciseSessions ==
            Cardinality({i \in 1..Len(entries) : entries[i].exerciseMinutes > 0})
        weeklyCount ==
            Cardinality({i \in 1..Len(entries) :
                            parseIsoDay(entries[i].date) >= weekStart(now)})
    IN [dailyLog30 |-> withAcceptance("dailyLog30", logs, acceptedQuests),
        exercise10 |-> withAcceptance("exercise10", exerciseSessions, acceptedQuests),
        weekly7 |-> withAcceptance("weekly7", weeklyCount, acceptedQuests)]

\* skills.reduce((sum, skill) => sum + (skillXp[skill] || 0), 0)
RECURSIVE SumSkillXp(_, _)
SumSkillXp(skills, skillXp) ==
    IF skills = {} THEN 0
    ELSE LET skill == CHOOSE x \in skills : TRUE
         IN (IF skill \in DOMAIN skillXp THEN skillXp[skill] ELSE 0)
            + SumSkillXp(skills \ {skill}, skillXp)

\* Object.keys(entriesMap).sort()
orderedKeys(entriesMap) == SortedSeq(DOMAIN entriesMap)

\* skillXp holds a skill once an entry has granted it; (skillXp[skill] || 0)
\* reads every other skill as 0
computeProgression(entriesMap, acceptedQuests, now) ==
    LET keys == orderedKeys(entriesMap)
        orderedEntries == [i \in 1..Len(keys) |-> entriesMap[keys[i]]]
        skillXp == [skill \in (IF Len(keys) = 0 THEN {} ELSE GainSkills) |->
                       SeqSum([i \in 1..Len(keys) |->
                                  computeSkillGains(orderedEntries[i])[skill]])]
        attributeXp ==
            [attribute \in DOMAIN ATTRIBUTE_SKILLS |->
                SumSkillXp(ATTRIBUTE_SKILLS[attribute], skillXp)]
    IN [overallXp |-> 20 * Len(keys),
        skillXp |-> skillXp,
        attributeXp |-> attributeXp,
        quests |-> computeQuestProgress(orderedEntries, acceptedQuests, now),
        orderedEntries |-> orderedEntries]

-----------------------------------------------------------------------------
(* SpecRecompute: the snapshot and the behavior mechanics, recomputed from   *)
(* the same inputs while the clock advances                                  *)

StartClock == 25
MaxClock == 32
RecomputeDays == {4, 5, 6, 7, 8}

AcceptedChoices ==
    {[q \in {} |-> TRUE],
     [q \in QuestIds |-> FALSE],
     [q \in QuestIds |-> TRUE],
     [q \in QuestIds |-> q = "weekly7"],
     [q \in {"dailyLog30", "exercise10"} |-> q = "exercise10"]}

RecomputeInputs ==
    {[entriesMap |-> [d \in days |-> TemplateEntry(template, d, BaselineFor(profile))],
      profile |-> profile,
      acceptedQuests |-> accepted] :
        days \in SUBSET RecomputeDays, template \in {"neutral", "zero", "blank"},
        profile \in {CompleteProfile, NoProfile}, accepted \in AcceptedChoices}

\* Everything one render derives from the inputs at time now.
Recomputed(in, now) ==
    [at |-> now,
     snapshot |-> computeProgression(in.entriesMap, in.acceptedQuests, now),
     behavior |-> evaluateBehaviorMechanics(orderedKeys(in.entriesMap), in.entriesMap,
                                            in.profile, now)]

InitRecompute ==
    /\ pc = "start"
    /\ input \in RecomputeInputs
    /\ output = Idle
    /\ prevOutput = Idle
    /\ clock = StartClock
    /\ state = Idle
    /\ storage = Idle
    /\ lastEvent = "none"

Recompute ==
    /\ output' = Recomputed(input, clock)
    /\ prevOutput' = output
    /\ pc' = "done"
    /\ UNCHANGED <<input, clock, state, storage, lastEvent>>

Tick ==
    /\ clock < MaxClock
    /\ clock' = clock + 1
    /\ UNCHANGED <<pc, input, output, prevOutput, state, storage, lastEvent>>

NextRecompute == Recompute \/ Tick

SpecRecompute == InitRecompute /\ [][NextRecompute]_vars

IsAccepted(acceptedQuests, q) == q \in DOMAIN acceptedQuests /\ acceptedQuests[q] = TRUE

\* The raw counter of a quest, on the stored dates and the calendar alone.
RawCounter(q, entriesMap, now) ==
    LET today == now \div DAY_MS
        monday == today - (today % 7)
    IN CASE q = "dailyLog30" -> Cardinality(DOMAIN entriesMap)
         [] q = "exercise10" ->
              Cardinality({d \in DOMAIN entriesMap : entriesMap[d].exerciseMinutes > 0})
         [] q = "weekly7" -> Cardinality({d \in DOMAIN entriesMap : d >= monday})

\* C7: a quest that is not accepted has current = 0 whatever the log holds,
\* an accepted quest has current = its raw counter, and target is always the
\* static target (30, 10, 7).
C7_QuestGating ==
    pc = "done" =>
        \A q \in QuestIds :
            LET quest == output.snapshot.quests[q]
                raw == RawCounter(q, input.entriesMap, output.at)
            IN /\ ~IsAccepted(input.acceptedQuests, q) => quest.current = 0
               /\ IsAccepted(input.acceptedQuests, q) => quest.current = raw
               /\ quest.target = (CASE q = "dailyLog30" -> 30
                                    [] q = "exercise10" -> 10
                                    [] q = "weekly7" -> 7)

\* one quest is gated to 0 over a matching log while another one counts
C7_Witness ==
    /\ pc = "done"
    /\ ~IsAccepted(input.acceptedQuests, "dailyLog30")
    /\ Cardinality(DOMAIN input.entriesMap) >= 3
    /\ output.snapshot.quests["dailyLog30"].current = 0
    /\ IsAccepted(input.acceptedQuests, "exercise10")
    /\ output.snapshot.quests["exercise10"].current >= 3

BothComputed == pc = "done" /\ prevOutput # Idle

SameResult(a, b) == a.snapshot = b.snapshot /\ a.behavior = b.behavior

\* C8 as stated: two recomputations from the same entries, profile and
\* accepted quests yield identical output.
C8_AsStated == BothComputed => SameResult(output, prevOutput)

\* C8 amended: two recomputations from the same entries, profile and accepted
\* quests on the same calendar day yield identical output.
C8_SameDayDeterminism ==
    (BothComputed /\ output.at \div DAY_MS = prevOutput.at \div DAY_MS)
        => SameResult(output, prevOutput)

\* recomputed in the morning and in the evening of a Monday that has a log,
\* with the weekly quest counting it
C8_Witness ==
    /\ BothComputed
    /\ output.at \div DAY_MS = prevOutput.at \div DAY_MS
    /\ output.at >= prevOutput.at + 2
    /\ output.at \div DAY_MS \in DOMAIN input.entriesMap
    /\ output.snapshot.quests["weekly7"].current > 0

-----------------------------------------------------------------------------
(* The application: the state object of main.js, localStorage, the clock,    *)
(* and the handlers that mutate and persist the state                        *)

AppStartClock == 31
EntryDates == {6, 7}
NoDate == NULL

CALORIE_STATIC_OUTLIER == [min |-> 800, max |-> 8000]

ALLOWED_GENDERS == {"male", "female", "nonbinary", "prefer_not_to_say"}
ALLOWED_ACTIVITY_LEVELS == {"sedentary", "light", "moderate", "active", "very_active"}

\* the window measured as 48h after the end of the target day
isEditableTwoDays(dateISO, now) ==
    LET endOfDay == dateISO * DAY_MS + (DAY_MS - 1)
        editableUntil == endOfDay + 2 * DAY_MS
    IN now <= editableUntil

\* new Date() <= end of the target day (its last time unit) + 24h
isEditable(dateISO, now) ==
    LET endOfDay == dateISO * DAY_MS + (DAY_MS - 1)
        editableUntil == endOfDay + DAY_MS
    IN now <= editableUntil

\* The hard errors and the anomalies of validateEntry (soft warnings are only shown).
validateEntry(entry, profile) ==
    LET metrics == <<entry.calories, entry.sleepHours, entry.mood, entry.steps,
                     entry.exerciseMinutes, entry.exerciseEffort>>
        providedMetricCount == Cardinality({i \in 1..6 : metrics[i] # NULL})
        healthyRange == computeHealthyCalorieRange(profile, "maintain")
        hardErrors ==
            {"at_least_one_metric" : x \in {1} \cap (IF providedMetricCount < 1 THEN {1} ELSE {})}
            \cup {"mood_range" : x \in {1} \cap
                    (IF entry.mood # NULL /\ (entry.mood < 1 \/ entry.mood > 10)
                     THEN {1} ELSE {})}
            \cup {"effort_range" : x \in {1} \cap
                    (IF entry.exerciseEffort # NULL
                        /\ (entry.exerciseEffort < 1 \/ entry.exerciseEffort > 10)
                     THEN {1} ELSE {})}
            \cup {"effort_required" : x \in {1} \cap
                    (IF entry.exerciseMinutes # NULL /\ entry.exerciseMinutes > 0
                        /\ entry.exerciseEffort = NULL
                     THEN {1} ELSE {})}
            \cup {"minutes_required" : x \in {1} \cap
                    (IF entry.exerciseEffort # NULL
                        /\ (entry.exerciseMinutes = NULL \/ entry.exerciseMinutes <= 0)
                     THEN {1} ELSE {})}
            \cup {"negative" : x \in {1} \cap
                    (IF \E n \in {entry.calories, entry.sleepHours, entry.steps,
                                  entry.exerciseMinutes} : n # NULL /\ n < 0
                     THEN {1} ELSE {})}
        anomalies ==
            {"sleep_gt_14" : x \in {1} \cap
                    (IF entry.sleepHours # NULL /\ entry.sleepHours > 14 THEN {1} ELSE {})}
            \cup {"steps_gt_60000" : x \in {1} \cap
                    (IF entry.steps # NULL /\ entry.steps > 60000 THEN {1} ELSE {})}
            \cup {"exercise_gt_240" : x \in {1} \cap
                    (IF entry.exerciseMinutes # NULL /\ entry.exerciseMinutes > 240
                     THEN {1} ELSE {})}
            \cup {"calories_outside_personalized" : x \in {1} \cap
                    (IF entry.calories # NULL /\ isProfileComplete(profile)
                        /\ healthyRange # NullRange
                        /\ (entry.calories < healthyRange.min
                            \/ entry.calories > healthyRange.max)
                     THEN {1} ELSE {})}
            \cup {"calories_outside_static" : x \in {1} \cap
                    (IF entry.calories # NULL /\ ~isProfileComplete(profile)
                        /\ (entry.calories > CALORIE_STATIC_OUTLIER.max
                            \/ entry.calories < CALORIE_STATIC_OUTLIER.min)
                     THEN {1} ELSE {})}
    IN [hardErrors |-> hardErrors, anomalies |-> anomalies]

toNullableNumber(value) == IF IsFinite(value) THEN value ELSE NULL

toNullableInteger(value) == IF IsFinite(value) THEN value ELSE NULL

toAllowedString(value, allowed) == IF value \in allowed THEN value ELSE NULLSTR

normalizeProfile(rawProfile) ==
    LET baselineTdee ==
            toNullableNumber(IF rawProfile.baselineTdee # NULL
                             THEN rawProfile.baselineTdee ELSE rawProfile.tdee)
        dynamicTdee == toNullableNumber(rawProfile.dynamicTdee)
    IN [heightCm |-> toNullableNumber(rawProfile.heightCm),
        weightKg |-> toNullableNumber(rawProfile.weightKg),
        age |-> toNullableInteger(rawProfile.age),
        gender |-> toAllowedString(rawProfile.gender, ALLOWED_GENDERS),
        activityLevel |-> toAllowedString(rawProfile.activityLevel, ALLOWED_ACTIVITY_LEVELS),
        tdee |-> baselineTdee,
        baselineTdee |-> baselineTdee,
        dynamicTdee |-> dynamicTdee,
        dynamicTdeeEnabled |-> (rawProfile.dynamicTdeeEnabled = TRUE),
        dynamicTdeeWindowDays |-> rawProfile.dynamicTdeeWindowDays,
        updatedAt |-> rawProfile.updatedAt]

DAILY_FIELDS ==
    <<"calories", "sleepHours", "mood", "steps", "exerciseMinutes", "exerciseEffort">>

UNIT_OPTIONS == [height |-> {"cm", "ft_in"}, weight |-> {"kg", "lb", "st_lb"}]

normalizeUnits(rawUnits) ==
    [height |-> IF rawUnits.height \in UNIT_OPTIONS.height THEN rawUnits.height ELSE "cm",
     weight |-> IF rawUnits.weight \in UNIT_OPTIONS.weight THEN rawUnits.weight ELSE "kg"]

IsDailyField(field) == \E i \in 1..Len(DAILY_FIELDS) : DAILY_FIELDS[i] = field

normalizeTrackedMetrics(rawTrackedMetrics) ==
    LET normalized == SelectSeq(rawTrackedMetrics, IsDailyField)
    IN IF Len(normalized) > 0 THEN normalized ELSE DAILY_FIELDS

\* reviews holds the periods that have a weekly or a monthly review.
\* entries is the set of the entry objects held under their date keys.
getDefaultState ==
    [entries |-> {},
     reviews |-> [weekly |-> {}, monthly |-> {}],
     acceptedQuests |-> [key \in QuestIds |-> FALSE],
     settings |-> [compactCards |-> FALSE, enableAnimations |-> TRUE, showTips |-> TRUE,
                   dashboardExpandedMetrics |-> FALSE,
                   units |-> [height |-> "cm", weight |-> "kg"]],
     goals |-> [trackedMetrics |-> DAILY_FIELDS],
     onboardingComplete |-> FALSE,
     profile |-> [heightCm |-> NULL, weightKg |-> NULL, age |-> NULL,
                  gender |-> NULLSTR, activityLevel |-> NULLSTR,
                  tdee |-> NULL, baselineTdee |-> NULL, dynamicTdee |-> NULL,
                  dynamicTdeeEnabled |-> FALSE,
                  dynamicTdeeWindowDays |-> CALORIE_LOOKBACK_DAYS,
                  updatedAt |-> NULL]]

\* localStorage: no item, or the JSON text of the last persisted state.
NoItem == [present |-> FALSE]

persistState(st) == [present |-> TRUE, parsed |-> st]

loadState(stored) ==
    IF ~stored.present THEN getDefaultState
    ELSE [entries |-> stored.parsed.entries,
          reviews |-> [weekly |-> stored.parsed.reviews.weekly,
                       monthly |-> stored.parsed.reviews.monthly],
          acceptedQuests |-> [key \in QuestIds |-> stored.parsed.acceptedQuests[key]],
          settings |-> [compactCards |-> stored.parsed.settings.compactCards,
                        enableAnimations |-> (stored.parsed.settings.enableAnimations # FALSE),
                        showTips |-> (stored.parsed.settings.showTips # FALSE),
                        dashboardExpandedMetrics |->
                            (stored.parsed.settings.dashboardExpandedMetrics = TRUE),
                        units |-> normalizeUnits(stored.parsed.settings.units)],
          goals |-> [trackedMetrics |->
                        normalizeTrackedMetrics(stored.parsed.goals.trackedMetrics)],
          onboardingComplete |-> (stored.parsed.onboardingComplete = TRUE),
          profile |-> normalizeProfile(stored.parsed.profile)]

\* What the read-only TDEE control of the settings form shows (NULL: empty).
hydrateProfile(st) ==
    IF st.profile.baselineTdee # NULL THEN MathRound(st.profile.baselineTdee, 1) ELSE NULL

\* state.entries[entry.date] = entry, without replacing the entry of that date
setEntryKeepOld(entries, entry) == entries \cup {entry}

\* state.entries[entry.date] = entry
setEntry(entries, entry) == {e \in entries : e.date # entry.date} \cup {entry}

\* state.entries[date], or the empty set when the date holds no entry
entryAt(entries, date) == {e \in entries : e.date = date}

FormEntryTemplates == {"mood", "blank", "effortOnly"}

readEntryFromForm(template, date) ==
    [BlankEntry(date) EXCEPT
        !.mood = IF template = "mood" THEN 7 ELSE NULL,
        !.exerciseEffort = IF template = "effortOnly" THEN 6 ELSE NULL]

FormProfiles ==
    {CompleteProfile,
     [CompleteProfile EXCEPT !.weightKg = 95],
     [CompleteProfile EXCEPT !.activityLevel = NULLSTR],
     [CompleteProfile EXCEPT !.age = 5]}

FormSettings ==
    {[compactCards |-> TRUE, enableAnimations |-> TRUE, showTips |-> FALSE],
     [compactCards |-> FALSE, enableAnimations |-> TRUE, showTips |-> TRUE]}

Init ==
    /\ pc = "app"
    /\ input = Idle
    /\ output = Idle
    /\ prevOutput = Idle
    /\ clock = AppStartClock
    /\ storage = NoItem
    /\ state = loadState(NoItem)
    /\ lastEvent = "none"

AppUnchanged == UNCHANGED <<pc, input, output, prevOutput, clock>>

\* the edit window applied to every date, stored or not
isReadOnlyWhateverStored(existing, dateISO, now) == ~isEditable(dateISO, now)

\* existing && !isEditable(entry.date)
isReadOnly(existing, dateISO, now) == existing # {} /\ ~isEditable(dateISO, now)

\* onEntrySubmit for one content of the entry form
submitEntry(template, date) ==
        LET entry == readEntryFromForm(template, date)
            existing == entryAt(state.entries, entry.date)
            validation == validateEntry(entry, state.profile)
            now == clock
            createdAt == IF existing # {} THEN (CHOOSE e \in existing : TRUE).createdAt
                         ELSE now
            stored == [date |-> entry.date, calories |-> entry.calories,
                       sleepHours |-> entry.sleepHours, mood |-> entry.mood,
                       steps |-> entry.steps, exerciseMinutes |-> entry.exerciseMinutes,
                       exerciseEffort |-> entry.exerciseEffort,
                       createdAt |-> createdAt, updatedAt |-> now,
                       isAnomalous |-> (validation.anomalies # {}),
                       anomalyNotes |-> validation.anomalies]
        IN /\ AppUnchanged
           /\ IF entry.date = NoDate
              THEN /\ lastEvent' = "missing_date"
                   /\ UNCHANGED <<state, storage>>
              ELSE IF isReadOnly(existing, entry.date, clock)
              THEN /\ lastEvent' = "read_only"
                   /\ UNCHANGED <<state, storage>>
              ELSE IF validation.hardErrors # {}
              THEN /\ lastEvent' = "hard_validation"
                   /\ UNCHANGED <<state, storage>>
              ELSE /\ state' = [state EXCEPT !.entries = setEntry(state.entries, stored)]
                   /\ storage' = persistState(state')
                   /\ lastEvent' = IF existing # {} THEN "entry_updated" ELSE "entry_saved"

onEntrySubmit ==
    \E template \in FormEntryTemplates, date \in EntryDates \cup {NoDate} :
        submitEntry(template, date)

\* the button taken as a toggle: a second click withdraws the acceptance
acceptQuestToggle ==
    \E questId \in QuestIds :
        /\ state' = [state EXCEPT !.acceptedQuests[questId] = ~@]
        /\ storage' = persistState(state')
        /\ lastEvent' = "quest_accepted"
        /\ AppUnchanged

acceptQuest ==
    \E questId \in QuestIds :
        /\ state' = [state EXCEPT !.acceptedQuests[questId] = TRUE]
        /\ storage' = persistState(state')
        /\ lastEvent' = "quest_accepted"
        /\ AppUnchanged

saveProfile ==
    \E profile \in FormProfiles :
        LET invalid ==
                \/ (profile.age # NULL /\ (profile.age < 10 \/ profile.age > 120))
                \/ (profile.gender # NULLSTR /\ profile.gender \notin ALLOWED_GENDERS)
                \/ (profile.heightCm # NULL
                    /\ (profile.heightCm < 80 \/ profile.heightCm > 260))
                \/ (profile.weightKg # NULL
                    /\ (profile.weightKg < 20 \/ profile.weightKg > 400))
                \/ (profile.activityLevel # NULLSTR
                    /\ profile.activityLevel \notin ALLOWED_ACTIVITY_LEVELS)
            hasBaseFields ==
                profile.age # NULL /\ profile.heightCm # NULL /\ profile.weightKg # NULL
            hasTdeeInputs ==
                hasBaseFields /\ profile.gender # NULLSTR /\ profile.activityLevel # NULLSTR
            tdee == IF hasTdeeInputs THEN computeTdee(profile) ELSE NULL
        IN /\ AppUnchanged
           /\ IF invalid
              THEN /\ lastEvent' = "profile_rejected"
                   /\ UNCHANGED <<state, storage>>
              ELSE /\ state' = [state EXCEPT !.profile =
                                   [@ EXCEPT !.age = profile.age,
                                             !.gender = profile.gender,
                                             !.heightCm = profile.heightCm,
                                             !.weightKg = profile.weightKg,
                                             !.activityLevel = profile.activityLevel,
                                             !.tdee = tdee,
                                             !.updatedAt = clock]]
                   /\ storage' = persistState(state')
                   /\ lastEvent' = "profile_saved"

onSettingsChange ==
    \E form \in FormSettings :
        /\ state' = [state EXCEPT !.settings =
                        [@ EXCEPT !.compactCards = form.compactCards,
                                  !.enableAnimations = form.enableAnimations,
                                  !.showTips = form.showTips]]
        /\ storage' = persistState(state')
        /\ lastEvent' = "settings_updated"
        /\ AppUnchanged

resetAccount ==
    LET fresh == getDefaultState
    IN /\ state' = [state EXCEPT !.entries = fresh.entries,
                                 !.reviews = fresh.reviews,
                                 !.acceptedQuests = fresh.acceptedQuests,
                                 !.settings = fresh.settings,
                                 !.profile = fresh.profile]
       /\ storage' = persistState(state')
       /\ lastEvent' = "account_reset"
       /\ AppUnchanged

\* The page is opened again: const state = loadState().
Reload ==
    /\ pc = "app"
    /\ state' = loadState(storage)
    /\ lastEvent' = "state_loaded"
    /\ UNCHANGED storage
    /\ AppUnchanged

Next ==
    \/ onEntrySubmit
    \/ acceptQuest
    \/ saveProfile
    \/ onSettingsChange
    \/ resetAccount
    \/ Reload
    \/ Tick

Spec == Init /\ [][Next]_vars

EntryDatesOf(entries) == {e.date : e \in entries}

OnePerDate(entries) == Cardinality(entries) = Cardinality(EntryDatesOf(entries))

\* C9: across entry submissions (accepted or rejected), quest acceptances,
\* profile saves, settings changes and reloads the stored entries hold at most
\* one entry per date and keep every date they held; only resetAccount
\* removes entries.
C9_OneEntryPerDateNeverRemoved ==
    [][pc = "app" =>
        /\ OnePerDate(state'.entries)
        /\ (storage'.present => storage'.parsed.entries = state'.entries)
        /\ (EntryDatesOf(state.entries) \subseteq EntryDatesOf(state'.entries)
            \/ lastEvent' = "account_reset")]_vars

\* two dates are stored, one of them edited after its creation, and a later
\* submission for a stored date was rejected as read-only
C9_Witness ==
    /\ pc = "app"
    /\ Cardinality(state.entries) = 2
    /\ \E e \in state.entries : e.updatedAt > e.createdAt
    /\ lastEvent = "read_only"

\* C10: the baseline TDEE of the stored profile, its alias tdee and the value
\* the settings form shows equal the TDEE computed from the stored age,
\* heightCm, weightKg, gender and activityLevel (null when one is missing);
\* stated on the state as loaded from storage.
C10_BaselineTdeeNeverStale ==
    (pc = "app" /\ lastEvent = "state_loaded") =>
        /\ state.profile.baselineTdee = computeTdee(state.profile)
        /\ state.profile.tdee = computeTdee(state.profile)
        /\ hydrateProfile(state) = computeTdee(state.profile)

-----------------------------------------------------------------------------
(* SpecBehavior: streaks and the empty log *)

NoGaps(keys) == \A i \in 1..(Len(keys) - 1) : GapDays(keys, i) = 1

\* C11: for a log of N >= 1 consecutive calendar days without a gap,
\* totalMissedDays = 0, missedDayPenaltyRate = 0 and currentStreak = N.
C11_GaplessLog ==
    (pc = "done" /\ Len(input.orderedDateKeys) >= 1 /\ NoGaps(input.orderedDateKeys)) =>
        /\ output.totalMissedDays = 0
        /\ output.missedDayPenaltyRate = 0
        /\ output.currentStreak = Len(input.orderedDateKeys)

\* a gapless log of MaxEntries days, with calories logged, has been evaluated
C11_Witness ==
    /\ pc = "done"
    /\ Len(input.orderedDateKeys) >= 5
    /\ NoGaps(input.orderedDateKeys)
    /\ output.currentStreak = Len(input.orderedDateKeys)
    /\ output.caloriePenaltyRate > 0

\* The position of the most recent gap larger than one day (0: no such gap).
LastBreak(keys) ==
    LET breaks == {i \in 1..(Len(keys) - 1) : GapDays(keys, i) > 1}
    IN IF breaks = {} THEN 0 ELSE CHOOSE i \in breaks : \A j \in breaks : j <= i

ShortGapLog == <<BaseDay, BaseDay + 1, BaseDay + 3>>

\* C12: comebackStreak is the number of logged days after the most recent gap
\* larger than one day; the log [D0, D0+1, D0+3] with an incomplete profile
\* yields totalMissedDays = 1, penaltyRate = 0.02 and comebackStreak = 1.
C12_ComebackStreak ==
    (pc = "done" /\ Len(input.orderedDateKeys) >= 1) =>
        LET keys == input.orderedDateKeys
        IN /\ output.comebackStreak = Len(keys) - LastBreak(keys)
           /\ (keys = ShortGapLog /\ ~isProfileComplete(input.profile)) =>
                 /\ output.totalMissedDays = 1
                 /\ output.penaltyRate = 20
                 /\ output.comebackStreak = 1

\* the log [D0, D0+1, D0+3] has been evaluated for an incomplete profile
C12_Witness ==
    /\ pc = "done"
    /\ input.orderedDateKeys = ShortGapLog
    /\ ~isProfileComplete(input.profile)
    /\ output.comebackStreak = 1
    /\ output.totalMissedDays = 1

\* C13: for an empty log every rate is 0, both streaks are 0 and the rest day
\* is not eligible, for every profile and reference date.
C13_EmptyLogNeutral ==
    (pc = "done" /\ Len(input.orderedDateKeys) = 0) =>
        /\ output.missedDayPenaltyRate = 0
        /\ output.caloriePenaltyRate = 0
        /\ output.penaltyRate = 0
        /\ output.recoveryRate = 0
        /\ output.calorieRecoveryRate = 0
        /\ output.currentStreak = 0
        /\ output.comebackStreak = 0
        /\ output.restDay.eligible = FALSE

\* the empty log has been evaluated for a complete profile
C13_Witness ==
    /\ pc = "done"
    /\ input.orderedDateKeys = <<>>
    /\ isProfileComplete(input.profile)
    /\ output.restDay.message = "log_first"

-----------------------------------------------------------------------------
(* SpecRecompute: the shape of the snapshot and its readers *)

TypeError == "TypeError"

\* renderRecap reads progression.behavior.restDay.message; reading a property
\* of undefined raises a TypeError.
renderRecap(progression) ==
    IF "behavior" \in DOMAIN progression
    THEN progression.behavior.restDay.message
    ELSE TypeError

\* C14: the snapshot of computeProgression holds, next to overallXp, skillXp,
\* attributeXp, quests and orderedEntries, the behavior breakdown computed from
\* the same entries and profile, so reading snapshot.behavior.restDay never fails.
C14_SnapshotHasBehavior ==
    pc = "done" =>
        /\ {"overallXp", "skillXp", "attributeXp", "quests", "orderedEntries"}
              \subseteq DOMAIN output.snapshot
        /\ "behavior" \in DOMAIN output.snapshot
        /\ renderRecap(output.snapshot) # TypeError
        /\ output.snapshot.behavior = output.behavior

-----------------------------------------------------------------------------
(* progression.js: the level curve; SpecLevel runs the loop of levelFromXp  *)

RECURSIVE Pow(_, _)
Pow(base, exponent) == IF exponent = 0 THEN 1 ELSE base * Pow(base, exponent - 1)

\* Math.round(100 * Math.pow(1.25, level - 1)), with 1.25 = 5/4
xpToNextLevel(level) == MathRound(100 * Pow(5, level - 1), Pow(4, level - 1))

\* while (remaining > xpToNextLevel(level))
loopContinuesStrict(remaining, level) == remaining > xpToNextLevel(level)

\* while (remaining >= xpToNextLevel(level))
loopContinues(remaining, level) == remaining >= xpToNextLevel(level)

\* remaining -= xpToNextLevel(1)
nextRemainingFirstLevel(remaining, level) == remaining - xpToNextLevel(1)

\* remaining -= xpToNextLevel(level)
nextRemaining(remaining, level) == remaining - xpToNextLevel(level)

RECURSIVE levelLoop(_, _)
levelLoop(level, remaining) ==
    IF loopContinues(remaining, level)
    THEN levelLoop(level + 1, nextRemaining(remaining, level))
    ELSE [level |-> level, inLevelXp |-> remaining, next |-> xpToNextLevel(level)]

levelFromXp(xp) == levelLoop(1, xp)

MaxXp == 1200

InitLevel ==
    /\ pc = "loop"
    /\ input \in {[xp |-> xp] : xp \in 0..MaxXp}
    /\ output = [level |-> 1, remaining |-> input.xp, iterations |-> 0]
    /\ prevOutput = Idle
    /\ clock = 0
    /\ state = Idle
    /\ storage = Idle
    /\ lastEvent = "none"

\* one pass through the body of the while loop
LevelLoopBody ==
    /\ pc = "loop"
    /\ loopContinues(output.remaining, output.level)
    /\ output' = [level |-> output.level + 1,
                  remaining |-> nextRemaining(output.remaining, output.level),
                  iterations |-> output.iterations + 1]
    /\ UNCHANGED <<pc, input, prevOutput, clock, state, storage, lastEvent>>

\* the loop condition fails: return { level, inLevelXp, next }
LevelReturn ==
    /\ pc = "loop"
    /\ ~loopContinues(output.remaining, output.level)
    /\ output' = [level |-> output.level, inLevelXp |-> output.remaining,
                  next |-> xpToNextLevel(output.level),
                  iterations |-> output.iterations]
    /\ pc' = "done"
    /\ UNCHANGED <<input, prevOutput, clock, state, storage, lastEvent>>

NextLevel == LevelLoopBody \/ LevelReturn

SpecLevel == InitLevel /\ [][NextLevel]_vars

\* A started call keeps running: the loop is sequential code.
SpecLevelFair == SpecLevel /\ WF_vars(NextLevel)

\* The XP needed to reach level L: the thresholds of levels 1..L-1.
CumulativeXp(L) == SeqSum([l \in 1..(L - 1) |-> xpToNextLevel(l)])

MaxLevel == 8

\* C15: levelFromXp(xp).level is non-decreasing in xp; at the sum of the
\* thresholds of levels 1..L-1 the result is level L with inLevelXp = 0; and
\* always 0 <= inLevelXp < xpToNextLevel(level), with the thresholds of levels
\* 1..level-1 plus inLevelXp adding up to xp.
C15_LevelFromXp ==
    pc = "done" =>
        /\ output.level = levelFromXp(input.xp).level
        /\ output.inLevelXp = levelFromXp(input.xp).inLevelXp
        /\ input.xp > 0 => levelFromXp(input.xp - 1).level <= output.level
        /\ \A L \in 1..MaxLevel :
              input.xp = CumulativeXp(L) => (output.level = L /\ output.inLevelXp = 0)
        /\ 0 <= output.inLevelXp
        /\ output.inLevelXp < xpToNextLevel(output.level)
        /\ CumulativeXp(output.level) + output.inLevelXp = input.xp
        /\ output.next = xpToNextLevel(output.level)

\* the XP that exactly reaches level 4 (100 + 125 + 156) has been converted
C15_Witness ==
    /\ pc = "done"
    /\ input.xp = 381
    /\ output.level = 4
    /\ output.inLevelXp = 0
    /\ output.next = 195

\* The levels whose cumulative threshold is <= xp, level 1 (threshold 0) aside.
LevelsReached(xp) == Cardinality({L \in 2..MaxLevel : CumulativeXp(L) <= xp})

\* C16: the loop of levelFromXp terminates for every non-negative integer xp,
\* after at most as many iterations as there are levels whose cumulative
\* threshold is <= xp.
C16_LoopTerminates ==
    /\ <>(pc = "done")
    /\ [](output.iterations <= LevelsReached(input.xp))

\* a call has returned after six passes through the loop body
C16_Witness ==
    /\ pc = "done"
    /\ output.iterations = 6
    /\ output.level = 7
    /\ input.xp >= 1125

-----------------------------------------------------------------------------
(* SpecProgression: computeProgression applied to a drawn entries map *)

SleepChoices == {NULL, 6, 7, 9, 10}
MoodChoices == {NULL, 6, 7}
ExerciseChoices == {<<NULL, NULL>>, <<29, 6>>, <<30, 5>>, <<30, 6>>}
ProgressionDays == {3, 4}

LoggedEntries(date) ==
    {[BlankEntry(date) EXCEPT !.sleepHours = sleep, !.mood = mood,
                              !.exerciseMinutes = exercise[1],
                              !.exerciseEffort = exercise[2]] :
        sleep \in SleepChoices, mood \in MoodChoices, exercise \in ExerciseChoices}

ProgressionMaps ==
    UNION {{m \in [days -> UNION {LoggedEntries(d) : d \in days}] :
                \A d \in days : m[d].date = d} :
              days \in SUBSET ProgressionDays}

ProgressionInputs ==
    {[entriesMap |-> m, acceptedQuests |-> accepted] :
        m \in ProgressionMaps,
        accepted \in {[q \in QuestIds |-> FALSE], [q \in QuestIds |-> TRUE]}}

InitProgression ==
    /\ pc = "start"
    /\ input \in ProgressionInputs
    /\ output = Idle
    /\ prevOutput = Idle
    /\ clock = StartClock
    /\ state = Idle
    /\ storage = Idle
    /\ lastEvent = "none"

EvaluateProgression ==
    /\ pc = "start"
    /\ output' = computeProgression(input.entriesMap, input.acceptedQuests, clock)
    /\ pc' = "done"
    /\ UNCHANGED <<input, prevOutput, clock, state, storage, lastEvent>>

NextProgression == EvaluateProgression

SpecProgression == InitProgression /\ [][NextProgression]_vars

\* The number of entries of the map that satisfy the bonus condition.
BonusDays(entriesMap, skill) ==
    Cardinality({d \in DOMAIN entriesMap :
        LET e == entriesMap[d]
        IN CASE skill = "Energy" ->
                  e.sleepHours # NULL /\ 7 <= e.sleepHours /\ e.sleepHours <= 9
             [] skill = "Strength" ->
                  /\ e.exerciseMinutes # NULL /\ e.exerciseMinutes >= 30
                  /\ e.exerciseEffort # NULL /\ e.exerciseEffort >= 6
             [] skill = "Emotional Balance" -> e.mood # NULL /\ e.mood >= 7
             [] skill = "Organisation" -> FALSE})

ExpectedSkillXp(entriesMap, skill) ==
    LET n == Cardinality(DOMAIN entriesMap)
    IN CASE skill = "Energy" -> 5 * n + 5 * BonusDays(entriesMap, skill)
         [] skill = "Organisation" -> 5 * n
         [] skill = "Emotional Balance" -> 5 * n + 5 * BonusDays(entriesMap, skill)
         [] skill = "Strength" -> 15 * n + 10 * BonusDays(entriesMap, skill)

\* skillXp[skill] || 0
SkillXpOf(snapshot, skill) ==
    IF skill \in DOMAIN snapshot.skillXp THEN snapshot.skillXp[skill] ELSE 0

-----------------------------------------------------------------------------
(* metric-analytics.js: getMetricWindow; SpecWindow applies it to a drawn log *)

DEFAULT_WINDOW_DAYS == 30

\* The local calendar day (YYYY-MM-DD) of a point in time.
toIsoDay(date) == date \div DAY_MS

\* latestDate.getDate() - (safeDays - offset): the window ends a day early
windowDayOffByOne(latestDate, safeDays, offset) ==
    latestDate - (safeDays - offset) * DAY_MS

\* dayCursor.setDate(latestDate.getDate() - (safeDays - offset - 1))
windowDay(latestDate, safeDays, offset) ==
    latestDate - (safeDays - offset - 1) * DAY_MS

\* new Map(sortedEntries.map(...)).get(dateKey): the last entry of the date
\* in sorted order, or NoEntry
NoEntry == [date |-> NoDate]

entryByDateGet(sortedEntries, dateKey) ==
    LET hits == {i \in 1..Len(sortedEntries) : sortedEntries[i].date = dateKey}
    IN IF hits = {} THEN NoEntry
       ELSE sortedEntries[CHOOSE i \in hits : \A j \in hits : j <= i]

getMetricWindow(entries, metricKey, days, now) ==
    LET safeDays == IF IsFinite(days) /\ days > 0 THEN days ELSE DEFAULT_WINDOW_DAYS
        sortedEntries == sortByDate(entries)
        latestDate == IF Len(sortedEntries) > 0
                      THEN parseIsoDay(sortedEntries[Len(sortedEntries)].date)
                      ELSE now
    IN [index \in 1..safeDays |->
          LET dateKey == toIsoDay(windowDay(latestDate, safeDays, index - 1))
              entry == entryByDateGet(sortedEntries, dateKey)
              rawValue == IF entry = NoEntry THEN NULL ELSE entry[metricKey]
          IN [date |-> dateKey, value |-> rawValue]]

MaxWindowDays == 4
WindowDates == {2, 3, 5}
WindowTemplates == {"blank", "low", "both"}
MetricKeys == {"mood", "steps"}

WindowEntry(template, date) ==
    [BlankEntry(date) EXCEPT
        !.mood = CASE template = "blank" -> NULL
                   [] template = "low" -> 3
                   [] template = "both" -> 7,
        !.steps = IF template = "both" THEN 8000 ELSE NULL]

\* The entries of a map as an array, oldest or newest first.
WindowLog(m, newestFirst) ==
    LET keys == SortedSeq(DOMAIN m)
        n == Len(keys)
    IN [i \in 1..n |-> m[keys[IF newestFirst THEN n + 1 - i ELSE i]]]

WindowInputs ==
    {[entries |-> WindowLog(m, newestFirst), metricKey |-> metricKey, days |-> days] :
        m \in UNION {{f \in [dates -> {WindowEntry(t, d) : t \in WindowTemplates,
                                                              d \in dates}] :
                          \A d \in dates : f[d].date = d} :
                        dates \in SUBSET WindowDates},
        newestFirst \in BOOLEAN, metricKey \in MetricKeys, days \in 0..MaxWindowDays}

InitWindow ==
    /\ pc = "start"
    /\ input \in WindowInputs
    /\ output = Idle
    /\ prevOutput = Idle
    /\ clock \in {StartClock, StartClock + 3}
    /\ state = Idle
    /\ storage = Idle
    /\ lastEvent = "none"

EvaluateWindow ==
    /\ pc = "start"
    /\ output' = getMetricWindow(input.entries, input.metricKey, input.days, clock)
    /\ pc' = "done"
    /\ UNCHANGED <<input, prevOutput, clock, state, storage, lastEvent>>

NextWindow == EvaluateWindow

SpecWindow == InitWindow /\ [][NextWindow]_vars

LoggedDates(entries) == {entries[i].date : i \in 1..Len(entries)}

\* The last date of the window: the latest logged date, else today.
WindowEnd ==
    IF Len(input.entries) = 0 THEN clock \div DAY_MS
    ELSE CHOOSE d \in LoggedDates(input.entries) :
            \A other \in LoggedDates(input.entries) : other <= d

\* C18: for a positive integer days, getMetricWindow returns exactly days
\* points on consecutive ascending dates ending at the latest logged date
\* (today when nothing is logged); a point holds null when its date has no
\* entry or the entry has no value for the metric, else the entry's value.
C18_MetricWindow ==
    (pc = "done" /\ input.days >= 1) =>
        /\ Len(output) = input.days
        /\ \A i \in 1..Len(output) :
              /\ output[i].date = WindowEnd - (input.days - i)
              /\ IF output[i].date \in LoggedDates(input.entries)
                 THEN \E k \in 1..Len(input.entries) :
                         /\ input.entries[k].date = output[i].date
                         /\ output[i].value = input.entries[k][input.metricKey]
                 ELSE output[i].value = NULL

\* a 4-day window over a log with a missing day, an entry without the metric
\* and an entry with it
C18_Witness ==
    /\ pc = "done"
    /\ input.days = 4
    /\ LoggedDates(input.entries) = {2, 3, 5}
    /\ input.entries[1].date = 5
    /\ output[1].date = 2 /\ output[1].value = NULL
    /\ output[2].date = 3 /\ output[2].value = 8000
    /\ output[3].date = 4 /\ output[3].value = NULL
    /\ output[4].date = 5

-----------------------------------------------------------------------------
(* Spec: the edit window of a stored entry *)

\* The current time is later than 24 hours after the end of the day.
WindowExpired(date) == clock \div DAY_MS >= date + 2

\* the form content passes the hard validations
ValidTemplate(template) == template = "mood"

\* C19: once the current time is later than 24 hours after the end of an
\* entry's calendar day, every submission for that date is rejected as
\* read-only and the state (the entry with its createdAt and updatedAt
\* included) and the storage stay unchanged; before that moment a valid
\* submission for the date replaces the entry and keeps its createdAt.
C19_EditWindow ==
    [][\A template \in FormEntryTemplates, date \in EntryDates :
          (pc = "app" /\ entryAt(state.entries, date) # {} /\ submitEntry(template, date))
            => LET old == CHOOSE e \in entryAt(state.entries, date) : TRUE
                   form == readEntryFromForm(template, date)
               IN IF WindowExpired(date)
                  THEN /\ lastEvent' = "read_only"
                       /\ state' = state
                       /\ storage' = storage
                  ELSE ValidTemplate(template) =>
                       /\ lastEvent' = "entry_updated"
                       /\ \E new \in state'.entries :
                             /\ entryAt(state'.entries, date) = {new}
                             /\ new.createdAt = old.createdAt
                             /\ new.updatedAt = clock
                             /\ new.mood = form.mood
                       /\ storage'.parsed.entries = state'.entries]_vars

\* an entry saved inside its window, its window expired since, and a
\* submission for its date was just rejected
C19_Witness ==
    /\ pc = "app"
    /\ lastEvent = "read_only"
    /\ \E e \in state.entries :
          /\ WindowExpired(e.date)
          /\ e.createdAt \div DAY_MS < e.date + 2
    /\ \E e \in state.entries : ~WindowExpired(e.date) /\ e.updatedAt > e.createdAt

-----------------------------------------------------------------------------
(* SpecLoaded: the application started on a state that was persisted before *)

StoredItems ==
    {persistState([getDefaultState EXCEPT
        !.onboardingComplete = TRUE,
        !.goals = [trackedMetrics |-> <<"mood", "steps">>],
        !.reviews = [weekly |-> {"W44"}, monthly |-> {}],
        !.acceptedQuests = [key \in QuestIds |-> key = "weekly7"]]),
     persistState([getDefaultState EXCEPT
        !.goals = [trackedMetrics |-> <<"calories", "pace">>],
        !.settings = [@ EXCEPT !.dashboardExpandedMetrics = TRUE,
                               !.units = [height |-> "ft_in", weight |-> "stone"]]])}

InitLoaded ==
    /\ pc = "app"
    /\ input = Idle
    /\ output = Idle
    /\ prevOutput = Idle
    /\ clock = AppStartClock
    /\ storage \in StoredItems
    /\ state = loadState(storage)
    /\ lastEvent = "none"

SpecLoaded == InitLoaded /\ [][Next]_vars

\* The stored entries as the date-ordered array computeProgression builds.
EntriesInOrder(entries) ==
    LET dates == SortedSeq({e.date : e \in entries})
    IN [k \in 1..Len(dates) |-> CHOOSE e \in entries : e.date = dates[k]]

-----------------------------------------------------------------------------
(* SpecCalorie: evaluateBehaviorMechanics on day-after-day logs whose       *)
(* calories vary entry by entry, longer than the lookback                   *)

MaxCalorieLog == 11

\* The profile taken from the settings form before the activity level is chosen.
NoActivityProfile == [CompleteProfile EXCEPT !.activityLevel = NULLSTR]

\* The calories logged for a class at a position of the log: "in" sits on an
\* edge of the maintenance band, "out" one kcal beyond an edge.
CalorieValue(class, index, profile) ==
    LET range == computeHealthyCalorieRange(profile, "maintain")
    IN CASE class = "none" -> NULL
         [] class = "in" -> IF range = NullRange THEN 2000
                            ELSE IF index % 2 = 0 THEN range.min ELSE range.max
         [] class = "out" -> IF range = NullRange THEN 5000
                             ELSE IF index % 2 = 0 THEN range.min - 1 ELSE range.max + 1

\* Entries older than the lookback plus one all log out-of-band calories.
VariedFrom(len) == Max(1, len - CALORIE_LOOKBACK_DAYS)

CalorieInput(len, classes, profile) ==
    [orderedDateKeys |-> [i \in 1..len |-> BaseDay + i - 1],
     entriesMap |->
        [d \in BaseDay..(BaseDay + len - 1) |->
            LET index == d - BaseDay + 1
                class == IF index >= VariedFrom(len) THEN classes[index] ELSE "out"
            IN [BlankEntry(d) EXCEPT !.calories = CalorieValue(class, index, profile)]],
     profile |-> profile,
     referenceDate |-> parseIsoDay(BaseDay + len - 1)]

InitCalorie ==
    /\ pc = "start"
    /\ \E len \in 1..MaxCalorieLog :
       \E classes \in [VariedFrom(len)..len -> CalorieClasses] :
       \E profile \in {CompleteProfile, NoActivityProfile, NoProfile} :
          input = CalorieInput(len, classes, profile)
    /\ output = Idle
    /\ prevOutput = Idle
    /\ clock = 0
    /\ state = Idle
    /\ storage = Idle
    /\ lastEvent = "none"

EvaluateCalorie ==
    /\ pc = "start"
    /\ output' = evaluateBehaviorMechanics(input.orderedDateKeys, input.entriesMap,
                                           input.profile, input.referenceDate)
    /\ pc' = "done"
    /\ UNCHANGED <<input, prevOutput, clock, state, storage, lastEvent>>

NextCalorie == EvaluateCalorie

SpecCalorie == InitCalorie /\ [][NextCalorie]_vars

\* The five base fields of the profile are all present.
HasFiveBaseFields(profile) ==
    /\ profile.age # NULL
    /\ profile.heightCm # NULL
    /\ profile.weightKg # NULL
    /\ profile.gender # NULLSTR
    /\ profile.activityLevel # NULLSTR

\* The dates of the last 7 entries of the log.
LookbackDates(keys) == {keys[i] : i \in Max(1, Len(keys) - 6)..Len(keys)}

LoggedCalories(d) == input.entriesMap[d].calories

-----------------------------------------------------------------------------
(* SpecBehavior: the rest day and the rates *)

\* The log as it stood when its first count entries had been submitted.
LogPrefix(count) ==
    [orderedDateKeys |-> SubSeq(input.orderedDateKeys, 1, count),
     entriesMap |-> [d \in SeqToSet(SubSeq(input.orderedDateKeys, 1, count)) |->
                        input.entriesMap[d]]]

BehaviorOfPrefix(count, referenceDate) ==
    evaluateBehaviorMechanics(LogPrefix(count).orderedDateKeys, LogPrefix(count).entriesMap,
                              input.profile, referenceDate)

\* Entry i was followed by one skipped day, and on that day the log up to
\* entry i made the user eligible for a protected rest day.
EligibleSkipAfter(i) ==
    /\ GapDays(input.orderedDateKeys, i) = 2
    /\ BehaviorOfPrefix(i, parseIsoDay(input.orderedDateKeys[i] + 1)).restDay.eligible

\* Everything evaluateBehaviorMechanics returns but the rest-day result.
RatesOf(behavior) ==
    [field \in DOMAIN behavior \ {"restDay"} |-> behavior[field]]

-----------------------------------------------------------------------------
(* SpecCalorie: the recovery rates *)

\* The part of recoveryRate that comes from the comeback streak.
StreakRecoveryOf(behavior) == behavior.recoveryRate - behavior.calorieRecoveryRate

\* C23: the streak recovery rate is 0 while comebackStreak < 3; from
\* comebackStreak = 3 on it is 0.01 for each day from the trigger day on
\* (0.01 at 3, 0.02 at 4, ...), capped at 0.08, which it never exceeds.
C23_StreakRecovery ==
    pc = "done" =>
        LET comebackStreak == output.comebackStreak
            expected == IF comebackStreak < 3 THEN 0
                        ELSE Min((comebackStreak - 2) * 10, 80)
        IN /\ output.recoveryRate = Min(110, expected + output.calorieRecoveryRate)
           /\ StreakRecoveryOf(output) <= 80

\* the cap binds: eleven days in a row would give 0.09 uncapped
C23_Witness ==
    /\ pc = "done"
    /\ output.comebackStreak = 11
    /\ StreakRecoveryOf(output) = 80
    /\ output.calorieRecoveryRate > 0

\* The entry at a position of the log logs calories inside the band.
InBandAt(index) ==
    LET calories == LoggedCalories(input.orderedDateKeys[index])
    IN /\ calories # NULL
       /\ calories >= output.calorieAdherence.rangeMin
       /\ calories <= output.calorieAdherence.rangeMax

\* The number of entries, from the latest one backwards, that log in-band
\* calories, up to the first entry that does not, over the whole log.
TrailingInBand ==
    LET len == Len(input.orderedDateKeys)
        breaks == {i \in 1..len : ~InBandAt(i)}
    IN IF breaks = {} THEN len
       ELSE len - (CHOOSE i \in breaks : \A j \in breaks : j <= i)

CalorieRecoveryFor(streak) ==
    IF streak < 3 THEN 0 ELSE Min((streak - 2) * 5, 30)

\* C24 as stated: the calorie recovery rate follows the trailing in-band
\* streak counted back from the latest entry until the first entry with
\* missing or out-of-band calories: 0 below 3, then 0.005 per day from the
\* trigger day on, capped at 0.03.
C24_AsStated ==
    (pc = "done" /\ output.calorieAdherence.enabled) =>
        output.calorieRecoveryRate = CalorieRecoveryFor(TrailingInBand)

\* C24 amended: the streak is counted within the last 7 entries of the log
\* only, so it stops at 7 even when older entries are in band, and the rate
\* is CalorieRecoveryFor(min(streak, 7)), at most 0.025.
C24_CalorieRecovery ==
    (pc = "done" /\ output.calorieAdherence.enabled) =>
        /\ output.calorieAdherence.inRangeStreak = Min(TrailingInBand, 7)
        /\ output.calorieRecoveryRate = CalorieRecoveryFor(Min(TrailingInBand, 7))
        /\ output.calorieRecoveryRate <= 25

\* eight in-band entries in a row up to the latest one, after an out-of-band one
C24_Witness ==
    /\ pc = "done"
    /\ output.calorieAdherence.enabled
    /\ TrailingInBand = 8
    /\ Len(input.orderedDateKeys) > 8
    /\ ~InBandAt(Len(input.orderedDateKeys) - 8)
    /\ output.calorieAdherence.inRangeStreak = 7
    /\ output.calorieRecoveryRate = 25

\* C27: caloriePenaltyRate is at most 0.105 (7 x 0.015) and
\* calorieRecoveryRate at most 0.025 (5 x 0.005), both being computed over
\* at most the last 7 entries, so the 0.12 and 0.03 caps never bind; and
\* recoveryRate is at most 0.105, so the 0.08 + 0.03 cap never binds either.
C27_CapsNeverBind ==
    pc = "done" =>
        LET streak == output.calorieAdherence.inRangeStreak
            streakPart == IF output.comebackStreak < 3 THEN 0
                          ELSE Min((output.comebackStreak - 2) * 10, 80)
        IN /\ output.calorieAdherence.deviationDays <= 7
           /\ output.caloriePenaltyRate = output.calorieAdherence.deviationDays * 15
           /\ output.caloriePenaltyRate <= 105
           /\ streak <= 7
           /\ output.calorieRecoveryRate = (IF streak < 3 THEN 0 ELSE (streak - 2) * 5)
           /\ output.calorieRecoveryRate <= 25
           /\ output.recoveryRate = streakPart + output.calorieRecoveryRate
           /\ output.recoveryRate <= 105

\* both recovery parts at their largest on a log longer than the lookback
\* whose entries before the last 7 include out-of-band ones
C27_Witness ==
    /\ pc = "done"
    /\ Len(input.orderedDateKeys) = MaxCalorieLog
    /\ output.calorieAdherence.enabled
    /\ \E i \in 1..(Len(input.orderedDateKeys) - 7) : ~InBandAt(i)
    /\ output.calorieAdherence.inRangeStreak = 7
    /\ output.calorieRecoveryRate = 25
    /\ output.recoveryRate = 105

-----------------------------------------------------------------------------
(* SpecBehavior: the rest-day messages *)

\* C26 as stated: for a non-empty log the rest-day message is one of "build
\* the streak first", "already used in this window" and "N rest day(s)
\* available", the last one exactly when eligible is true.
C26_AsStated ==
    (pc = "done" /\ Len(input.orderedDateKeys) >= 1) =>
        /\ output.restDay.message \in {"build_streak", "already_used", "available"}
        /\ output.restDay.message = "available" <=> output.restDay.eligible

\* C26 amended: for a non-empty log the message is one of four, chosen in
\* this order: "log one day to reactivate" when the reference day is two or
\* more days after the latest logged date, "build the streak first" when
\* currentStreak < 3, "already used" when no protected rest day remains in
\* the window, and "available" otherwise, exactly when eligible is true.
C26_RestDayMessages ==
    (pc = "done" /\ Len(input.orderedDateKeys) >= 1) =>
        LET expected ==
                IF RefDay >= LatestDay(input.orderedDateKeys) + 2 THEN "reactivate"
                ELSE IF output.currentStreak < 3 THEN "build_streak"
                ELSE IF output.restDay.remainingThisWindow <= 0 THEN "already_used"
                ELSE "available"
        IN /\ output.restDay.message = expected
           /\ output.restDay.message = "available" <=> output.restDay.eligible

\* the fourth message: a three-day streak, unused protection, a stale log
C26_Witness ==
    /\ pc = "done"
    /\ Len(input.orderedDateKeys) >= 3
    /\ output.currentStreak >= 3
    /\ output.restDay.remainingThisWindow = 1
    /\ RefDay = LatestDay(input.orderedDateKeys) + 2
    /\ output.restDay.message = "reactivate"
    /\ ~output.restDay.eligible

-----------------------------------------------------------------------------
(* SpecBackfill: entries submitted for dates far from today, and the quests *)

\* Dates of the entry form: two in the week before AppStartClock's, one on
\* its first day, one in the week after.
BackfillDates == {3, 5, 7, 14}

submitForAnyDate ==
    \E template \in {"mood", "blank"}, date \in BackfillDates :
        submitEntry(template, date)

NextBackfill ==
    \/ submitForAnyDate
    \/ acceptQuest
    \/ Tick

SpecBackfill == Init /\ [][NextBackfill]_vars

\* What refreshAllViews shows for the quests of the stored state.
QuestsShown(st, now) ==
    computeQuestProgress(EntriesInOrder(st.entries), st.acceptedQuests, now)

Today == clock \div DAY_MS

\* Monday of the week that contains today (day 0 is a Monday).
ThisMonday == Today - (Today % 7)

\* C25: for an accepted weekly7 quest, current is the number of entries dated
\* from this Monday to this Sunday; entries before this Monday or after this
\* Sunday are not counted, so current never exceeds 7.
C25_WeeklyQuestCount ==
    (pc = "app" /\ state.acceptedQuests["weekly7"]) =>
        LET current == QuestsShown(state, clock)["weekly7"].current
        IN /\ current = Cardinality({e \in state.entries :
                                        e.date >= ThisMonday /\ e.date <= ThisMonday + 6})
           /\ current <= 7

\* The missed days of the stored log: countImplicitMissedDays over its dates.
MissedDaysOf(st) == countImplicitMissedDays(SortedSeq(EntryDatesOf(st.entries)))

Earliest(dates) == CHOOSE d \in dates : \A other \in dates : d <= other

Latest(dates) == CHOOSE d \in dates : \A other \in dates : d >= other

\* C28: after any sequence of entry submissions totalMissedDays is the number
\* of calendar days from the earliest to the latest logged date, both
\* included, minus the number of logged dates; so an entry added for an
\* unlogged date strictly inside the span lowers it by 1 and an entry added
\* d days after the latest date raises it by d - 1.
C28_MissedDaysSpan ==
    [][pc = "app" =>
        LET dates == EntryDatesOf(state.entries)
            after == EntryDatesOf(state'.entries)
        IN /\ after # {} =>
                 MissedDaysOf(state')
                    = (Latest(after) - Earliest(after) + 1) - Cardinality(after)
           /\ \A d \in after \ dates :
                 dates # {} =>
                    /\ (d > Earliest(dates) /\ d < Latest(dates))
                          => MissedDaysOf(state') = MissedDaysOf(state) - 1
                    /\ d > Latest(dates)
                          => MissedDaysOf(state')
                                = MissedDaysOf(state) + (d - Latest(dates)) - 1]_vars

\* all four dates are logged, the inner ones entered after the outer ones
C28_Witness ==
    /\ pc = "app"
    /\ lastEvent = "entry_saved"
    /\ EntryDatesOf(state.entries) = BackfillDates
    /\ MissedDaysOf(state) = 8
    /\ \E inner \in state.entries, outer \in state.entries :
          /\ inner.date = 5
          /\ outer.date = 14
          /\ inner.createdAt > outer.createdAt

\* C29: the edit window only guards dates that already hold an entry.  A
\* valid submission for a date without a stored entry is accepted however
\* far in the past or in the future the date lies, and when the date lies
\* strictly inside the logged span the missed days drop by one.
C29_BackfillAnyTime ==
    [][\A date \in BackfillDates :
          (/\ pc = "app"
           /\ ~\E e \in state.entries : e.date = date
           /\ submitEntry("mood", date))
            => /\ lastEvent' = "entry_saved"
               /\ \E e \in state'.entries : e.date = date /\ e.createdAt = clock
               /\ storage' = persistState(state')
               /\ LET dates == EntryDatesOf(state.entries)
                  IN (dates # {} /\ date > Earliest(dates) /\ date < Latest(dates))
                        => MissedDaysOf(state') = MissedDaysOf(state) - 1]_vars

\* day 5 was logged on day 8, after its edit window had closed, between two
\* dates logged a day earlier
C29_Witness ==
    /\ pc = "app"
    /\ lastEvent = "entry_saved"
    /\ EntryDatesOf(state.entries) = {3, 5, 7}
    /\ \E e \in state.entries :
          /\ e.date = 5
          /\ e.createdAt = clock
          /\ WindowExpired(e.date)
          /\ \A other \in state.entries : other.date # 5 => other.createdAt < e.createdAt
    /\ MissedDaysOf(state) = 2

-----------------------------------------------------------------------------
(* Spec: quest acceptance *)

\* The stored entries under their date keys.
EntriesMapOf(entries) ==
    [d \in EntryDatesOf(entries) |-> CHOOSE e \in entries : e.date = d]

\* C30: an accepted quest stays accepted through every operation but
\* resetAccount; and the step that accepts a quest takes its current from 0
\* to the raw counter over all stored entries, those logged before the
\* acceptance included.
C30_AcceptanceOneWay ==
    [][pc = "app" =>
        \A q \in QuestIds :
            /\ (state.acceptedQuests[q] /\ lastEvent' # "account_reset")
                  => state'.acceptedQuests[q]
            /\ (~state.acceptedQuests[q] /\ state'.acceptedQuests[q])
                  => /\ lastEvent' = "quest_accepted"
                     /\ state'.entries = state.entries
                     /\ QuestsShown(state, clock)[q].current = 0
                     /\ QuestsShown(state', clock')[q].current
                           = RawCounter(q, EntriesMapOf(state.entries), clock)]_vars

\* dailyLog30 has just been accepted over two entries logged before
C30_Witness ==
    /\ pc = "app"
    /\ lastEvent = "quest_accepted"
    /\ state.acceptedQuests["dailyLog30"]
    /\ ~state.acceptedQuests["exercise10"]
    /\ Cardinality(state.entries) = 2
    /\ QuestsShown(state, clock)["dailyLog30"].current = 2
    /\ QuestsShown(state, clock)["weekly7"].current = 0

====
